---- MODULE Spec2Model ----
(***************************************************************************)
(* Model of the backup pipeline of backup-to-s3: the BackupManager run     *)
(* (staging root, directory and database capture, upload, retention        *)
(* cleanup, staging root removal) against an object store offering put,    *)
(* list and delete.                                                        *)
(*                                                                         *)
(* Strings are sequences of one-character strings, so that sanitizeString, *)
(* key construction and prefix matching are computed character by          *)
(* character.  A Date is a number of ticks (TicksPerSec ticks per second)  *)
(* instead of milliseconds, which keeps ages of several hundred days       *)
(* inside TLC's integers while keeping the sub-second part of a Date.      *)
(***************************************************************************)
EXTENDS Integers, Sequences, FiniteSets, TLC

\* ---------------------------------------------------------------- bounds
MaxDirs == 2          \* directory targets per configuration
MaxDbs == 1           \* database targets per configuration
MaxRuns == 2          \* BackupManager instances run one after the other
TicksPerSec == 2      \* resolution of the clock
MaxKeys == 10         \* objects per listing response (1000 at the store)
MaxPruneCalls == 2    \* successive direct calls of cleanupOldBackups
MaxAge == 95          \* oldest object of the retention sweep, in days
MaxFaults == 1        \* failures injected into one capture
MaxChunk == 3         \* bytes in one 'data' event of the child's stdout

TicksPerDay == TicksPerSec * 60 * 60 * 24
Clock0 == 500 * TicksPerDay + 12 * 60 * 60 * TicksPerSec

\* ---------------------------------------------------------- config.js
Dangerous == {";", "&", "|", "`", "$", "(", ")", "{", "}", "[", "]", "<", ">", "\"", "'", "\\"}

sanitizeString(str) == SelectSeq(str, LAMBDA c : c \notin Dangerous)

\* Characters the schema's name pattern /^[a-zA-Z0-9_-]+$/ admits (a sample).
NameChars == {"w", "d", "2", "_", "-"}

ProjectName == <<"p">>
DirectoryNames == {<<"w">>, <<"d", "-", "2">>}
DatabaseNames == {<<"d", "-", "2">>}

\* Retention policies the schema accepts (daily 0..365, weekly 0..52,
\* monthly 0..60); the first is the schema default.
Policies ==
  { [daily |-> 7, weekly |-> 4, monthly |-> 12],
    [daily |-> 7, weekly |-> 2, monthly |-> 1],
    [daily |-> 40, weekly |-> 0, monthly |-> 0],
    [daily |-> 0, weekly |-> 0, monthly |-> 0] }

SeqsUpTo(S, n) == UNION {[1..k -> S] : k \in 0..n}

Configs ==
  [ directories : SeqsUpTo(DirectoryNames, MaxDirs),
    databases   : SeqsUpTo(DatabaseNames, MaxDbs),
    retention   : Policies ]

\* ------------------------------------------------------------- utils.js
pad2(n) == IF n < 10 THEN "0" \o ToString(n) ELSE ToString(n)

\* Local-time fields of a Date.  The calendar date (year, month, day of
\* month) is kept as the day number it is an injective image of.
getDay(date) == date \div TicksPerDay
getHours(date) == (date \div (60 * 60 * TicksPerSec)) % 24
getMinutes(date) == (date \div (60 * TicksPerSec)) % 60
getSeconds(date) == (date \div TicksPerSec) % 60

generateTimestamp(date) ==
  << ToString(getDay(date)), "_", pad2(getHours(date)), "-",
     pad2(getMinutes(date)), "-", pad2(getSeconds(date)) >>

generateTimestampedFilename(baseName, extension, timestamp) ==
  baseName \o <<"_">> \o timestamp \o <<extension>>

basename(path) == path[2]

\* ------------------------------------------------------- s3-uploader.js
\* Variant: the key leaves out the target's directory.
s3Key_flat(backup) == ProjectName \o <<"/">> \o basename(backup.path)

\* `${this.projectName}/${backup.name}/${path.basename(backup.path)}`
s3Key(backup) ==
  ProjectName \o <<"/">> \o backup.name \o <<"/">> \o basename(backup.path)

StartsWith(str, prefix) ==
  Len(str) >= Len(prefix) /\ SubSeq(str, 1, Len(prefix)) = prefix

HasKey(store, key) == \E i \in 1..Len(store) : store[i].Key = key

\* Variant: a put that reports success without storing the object.
PutObject_lost(store, key, date, r) == store

\* put: an object replaces the object already stored under the same key.
PutObject(store, key, date, r) ==
  LET obj == [Key |-> key, LastModified |-> date, run |-> r]
  IN  IF HasKey(store, key)
      THEN [i \in 1..Len(store) |-> IF store[i].Key = key THEN obj ELSE store[i]]
      ELSE Append(store, obj)

DeleteObject(store, key) == SelectSeq(store, LAMBDA o : o.Key # key)

\* list(prefix): the objects whose key starts with the prefix.
ListObjects(store, prefix) == SelectSeq(store, LAMBDA o : StartsWith(o.Key, prefix))

\* ListObjectsV2 as listBackups sends it: one request, no continuation
\* token, so at most the first MaxKeys matching objects come back.
ListObjectsV2(store, prefix) ==
  LET all == ListObjects(store, prefix)
  IN  IF Len(all) > MaxKeys THEN SubSeq(all, 1, MaxKeys) ELSE all

\* Variant: the prefix of the retention listing without its final slash.
cleanupPrefix_noSlash == ProjectName

\* cleanupOldBackups: listBackups(`${this.projectName}/`)
cleanupPrefix == ProjectName \o <<"/">>

\* cleanupOldBackups, the age of an object in whole days.
daysDiffOf(nowDate, lastModified) == (nowDate - lastModified) \div TicksPerDay

\* Variant: the daily bound and the weekly tier compared with >= instead of >.
shouldDelete_fromDaily(daysDiff, daily, weekly, monthly) ==
  IF daysDiff >= daily /\ daysDiff <= 28
  THEN (daysDiff \div 7) >= weekly
  ELSE IF daysDiff > 28
       THEN (daysDiff \div 30) > monthly
       ELSE FALSE

\* Variant: the weekly tier compared with >= instead of >.
shouldDelete_weekly(daysDiff, daily, weekly, monthly) ==
  IF daysDiff > daily /\ daysDiff <= 28
  THEN (daysDiff \div 7) >= weekly
  ELSE IF daysDiff > 28
       THEN (daysDiff \div 30) > monthly
       ELSE FALSE

\* cleanupOldBackups, the decision taken for one listed object.
shouldDelete(daysDiff, daily, weekly, monthly) ==
  IF daysDiff > daily /\ daysDiff <= 28
  THEN (daysDiff \div 7) > weekly
  ELSE IF daysDiff > 28
       THEN (daysDiff \div 30) > monthly
       ELSE FALSE

\* ------------------------------------------------- the store before run 1
InitialAges == <<3, 10, 20, 35, 95, 400>>
OtherProject == <<"p", "2">>

OldObject(project, name, age) ==
  LET date == Clock0 - age * TicksPerDay - (TicksPerDay \div 2)
  IN  [ Key |-> project \o <<"/">> \o name \o <<"/">> \o name \o <<"_">>
                  \o generateTimestamp(date) \o <<".tar.gz">>,
        LastModified |-> date,
        run |-> 0 ]

InitialStores ==
  { <<>>,
    [i \in 1..Len(InitialAges) |-> OldObject(ProjectName, <<"w">>, InitialAges[i])]
      \o << OldObject(OtherProject, <<"w">>, 400) >> }

\* ------------------------------------------------------------------ state
VARIABLES
  config,           \* the validated configuration loadConfig returned
  invocations,      \* how many times the backup command is invoked
  clock,            \* the wall clock, in ticks
  remote,           \* the bucket: a sequence of objects
  run,              \* number of BackupManager instances constructed so far
  pc,               \* position of the current run
  startTime,        \* BackupManager.startTime
  backupTimestamp,  \* runBackup's backupTimestamp
  tempDir,          \* the staging root: does it exist, which files it holds
  idx,              \* index of the loop in progress
  results,          \* the results array of the loop in progress
  allBackups,       \* runBackup's allBackups
  uploads,          \* runBackup's uploads
  listing,          \* cleanupOldBackups' backups
  now,              \* cleanupOldBackups' now
  deletedCount,     \* cleanupOldBackups' deletedCount
  pending,          \* how the try/catch of runBackup completed
  outcome,          \* how runBackup completed
  log,              \* messages the logger received during the run
  captureLog,       \* history: every capture attempted
  putLog,           \* history: every put issued
  deleteLog,        \* history: every delete issued
  calls,            \* direct calls of cleanupOldBackups made so far
  pruneOutcome      \* how the last cleanupOldBackups completed

\* State of one capture (backupDatabase or backupDirectory) called directly.
VARIABLES
  cpc,              \* position of the capture
  disk,             \* the paths that exist on disk
  faults,           \* failures injected so far
  dbConfig,         \* backupDatabase's dbConfig
  directoryConfig,  \* backupDirectory's directoryConfig
  outputPath,       \* the capture's outputPath
  dumpFile,         \* backupMySQL's dumpFile
  tempArchivePath,  \* the capture's tempArchivePath
  tempConfigFile,   \* backupMySQL's tempConfigFile
  configPath,       \* backupMySQL's configPath
  cnf,              \* lines written to the credential file
  spawned,          \* argument vectors handed to spawn
  capturePending,   \* how backupMySQL's try/catch completed
  captureOutcome    \* how the capture's promise settled

orchVars == << config, invocations, clock, remote, run, pc, startTime, backupTimestamp, tempDir,
               idx, results, allBackups, uploads, listing, now, deletedCount,
               pending, outcome, log, captureLog, putLog, deleteLog,
               calls, pruneOutcome >>

\* Files and streams of a capture.
VARIABLES
  umask,            \* the process's file mode creation mask
  modes,            \* permission bits of the files the capture wrote
  toolStdout,       \* bytes mysqldump writes to its stdout
  toolStderr,       \* text mysqldump writes to its stderr
  stdout,           \* execSecureCommand's stdout: the decoded chunks so far
  delivered,        \* bytes of toolStdout delivered in 'data' events so far
  caught,           \* the error backupMySQL's catch block received
  dumpContent,      \* bytes of the dump file
  archiveEntries    \* entries of the archive the capture produced

\* State of the audit log.
VARIABLES
  auditFiles,       \* the audit log files on disk, by rotation index
  maxFiles,         \* AuditLogger.maxFiles
  maxFileSize,      \* AuditLogger.maxFileSize
  auditEvents       \* logEvent calls made so far

\* State of the command line's `list` command.
VARIABLES
  cliPc,            \* where the command's action is
  imported,         \* what `const { S3Uploader } = require(...)` bound
  printed,          \* the keys printed on stdout
  exitCode          \* the status the process exited with, -1 while it runs

ioVars == << umask, modes, toolStdout, toolStderr, stdout, delivered, caught,
             dumpContent, archiveEntries >>

auditVars == << auditFiles, maxFiles, maxFileSize, auditEvents >>

captureVars == << cpc, disk, faults, dbConfig, directoryConfig, outputPath, dumpFile,
                  tempArchivePath, tempConfigFile, configPath, cnf, spawned,
                  capturePending, captureOutcome, ioVars >>

\* The backup processes running at the same time, by process.
VARIABLES
  managers          \* the BackupManager of each process and where its run is

cliVars == << cliPc, imported, printed, exitCode >>

concVars == << managers >>

vars == << orchVars, captureVars, auditVars, cliVars, concVars >>

\* Permission bits as the set of bits that are set.
OwnerBits == {"ur", "uw", "ux"}
AllBits == OwnerBits \cup {"gr", "gw", "gx", "or", "ow", "ox"}
Mode600 == {"ur", "uw"}
Mode666 == {"ur", "uw", "gr", "gw", "or", "ow"}
Mode777 == AllBits

\* umask 022 and umask 077.
Umasks == { {"gw", "ow"}, AllBits \ OwnerBits }
DefaultUmask == {"gw", "ow"}

\* The permission bits a new file or directory gets: the requested bits
\* less the bits of the umask.
createMode(requested) == requested \ umask

\* fs.mkdirSync(dir, { recursive: true }): no mode is given, so the
\* directory is asked for with the default 0o777.
mkdirSync_mode == createMode(Mode777)

\* null
Null == <<>>

TempDirPath == "/tmp/backup-to-s3"
NoOutcome == [kind |-> "none"]
Thrown(stage, target) == [kind |-> "thrown", stage |-> stage, target |-> target]
Returned(result) == [kind |-> "returned", result |-> result]

\* Time an awaited capture may take.
CaptureTimes == {0, TicksPerSec}
\* Time between the end of a run and the construction of the next manager;
\* the first manager is constructed at the initial time.
IdleTimes == IF run = 0 THEN {0} ELSE {1, TicksPerSec}

\* The configurations used when the backup command is invoked repeatedly.
RepeatedConfigs ==
  { c \in Configs : /\ c.directories = << <<"w">> >>
                    /\ c.databases = << <<"d", "-", "2">> >>
                    /\ c.retention.daily = 7 }

InitIdle ==
  /\ clock = Clock0
  /\ run = 0
  /\ pc = "Idle"
  /\ startTime = 0
  /\ backupTimestamp = <<>>
  /\ tempDir = [exists |-> FALSE, files |-> {}, mode |-> {}]
  /\ idx = 0
  /\ results = <<>>
  /\ allBackups = <<>>
  /\ uploads = <<>>
  /\ listing = <<>>
  /\ now = 0
  /\ deletedCount = 0
  /\ pending = NoOutcome
  /\ outcome = NoOutcome
  /\ log = {}
  /\ captureLog = <<>>
  /\ putLog = <<>>
  /\ deleteLog = <<>>
  /\ calls = 0
  /\ pruneOutcome = NoOutcome

\* No capture has written a file or read a stream.
IoIdle ==
  /\ modes = <<>>
  /\ toolStdout = <<>>
  /\ toolStderr = <<>>
  /\ stdout = <<>>
  /\ delivered = 0
  /\ caught = Null
  /\ dumpContent = <<>>
  /\ archiveEntries = {}

\* No audit logger is constructed.
AuditIdle ==
  /\ auditFiles = <<>>
  /\ maxFiles = 0
  /\ maxFileSize = 0
  /\ auditEvents = 0

\* The list command has not been invoked.
CliIdle ==
  /\ cliPc = "none"
  /\ imported = Null
  /\ printed = <<>>
  /\ exitCode = -1

\* No second process runs.
ConcIdle == managers = <<>>

\* No capture is called directly.
CaptureIdle ==
  /\ IoIdle
  /\ AuditIdle
  /\ CliIdle
  /\ ConcIdle
  /\ cpc = "none"
  /\ disk = {}
  /\ faults = 0
  /\ dbConfig = Null
  /\ directoryConfig = Null
  /\ outputPath = Null
  /\ dumpFile = Null
  /\ tempArchivePath = Null
  /\ tempConfigFile = Null
  /\ configPath = Null
  /\ cnf = Null
  /\ spawned = <<>>
  /\ capturePending = NoOutcome
  /\ captureOutcome = NoOutcome

InitRun ==
  /\ remote \in InitialStores
  /\ InitIdle
  /\ CaptureIdle

\* One invocation of the backup command, any accepted configuration.
Init ==
  /\ umask \in Umasks
  /\ config \in Configs
  /\ invocations = 1
  /\ InitRun

\* The backup command invoked MaxRuns times with the same configuration.
InitRepeated ==
  /\ umask = DefaultUmask
  /\ config \in RepeatedConfigs
  /\ invocations = MaxRuns
  /\ InitRun

\* ------------------------------------------------------ BackupManager
\* new BackupManager(configPath): startTime = new Date(); the run's scratch
\* state starts empty.
constructor(elapsed) ==
  /\ pc \in {"Idle", "Done"}
  /\ run < invocations
  /\ run' = run + 1
  /\ clock' = clock + elapsed
  /\ startTime' = clock'
  /\ pc' = "Constructed"
  /\ backupTimestamp' = <<>>
  /\ idx' = 0
  /\ results' = <<>>
  /\ allBackups' = <<>>
  /\ uploads' = <<>>
  /\ listing' = <<>>
  /\ now' = 0
  /\ deletedCount' = 0
  /\ pending' = NoOutcome
  /\ outcome' = NoOutcome
  /\ pruneOutcome' = NoOutcome
  /\ log' = {}
  /\ UNCHANGED << captureVars, auditVars, cliVars, concVars, calls, config, invocations, remote, tempDir, captureLog, putLog, deleteLog >>

\* Variant: the databases are captured first.
AfterStaging_databasesFirst ==
  IF Len(config.databases) > 0 THEN "dbs"
  ELSE IF Len(config.directories) > 0 THEN "dirs" ELSE "check"

\* Where runBackup continues once the staging root exists / a loop has ended.
AfterStaging ==
  IF Len(config.directories) > 0 THEN "dirs"
  ELSE IF Len(config.databases) > 0 THEN "dbs" ELSE "check"

AfterDirectories == IF Len(config.databases) > 0 THEN "dbs" ELSE "check"

\* runBackup up to and including ensureTempDir.
runBackup_begin(mkdirOk) ==
  /\ pc = "Constructed"
  /\ backupTimestamp' = generateTimestamp(startTime)
  /\ idx' = 1
  /\ results' = <<>>
  /\ IF tempDir.exists
     THEN /\ pc' = AfterStaging
          /\ UNCHANGED << tempDir, pending >>
     ELSE IF mkdirOk
          THEN /\ tempDir' = [exists |-> TRUE, files |-> {}, mode |-> mkdirSync_mode]
               /\ pc' = AfterStaging
               /\ UNCHANGED pending
          ELSE /\ pc' = "catch"
               /\ pending' = Thrown("staging", <<>>)
               /\ UNCHANGED tempDir
  /\ log' = log \cup {"Starting backup process..."}
  /\ UNCHANGED << captureVars, auditVars, cliVars, concVars, calls, pruneOutcome, config, invocations, clock, remote, run, startTime, allBackups, uploads,
                  listing, now, deletedCount, outcome, captureLog, putLog, deleteLog >>

\* Variant: the file is named after the time of its capture.
Artifact_fresh(name, timestamp) ==
  [ name |-> name,
    path |-> << TempDirPath,
                generateTimestampedFilename(sanitizeString(name), ".tar.gz",
                                            generateTimestamp(clock')) >> ]

\* The artifact backupDirectory / backupMySQL resolve with.
Artifact(name, timestamp) ==
  [ name |-> name,
    path |-> << TempDirPath,
                generateTimestampedFilename(sanitizeString(name), ".tar.gz", timestamp) >> ]

\* The entry createCompressedArchive stores the dump under.
sqlFilename(name, timestamp) ==
  generateTimestampedFilename(sanitizeString(name), ".sql", timestamp)

\* Variant: the catch block logs the failure and the loop goes on.
backupDirectories_catch_swallow(name) ==
  /\ log' = log \cup {"Failed to backup directory"}
  /\ IF idx = Len(config.directories)
     THEN /\ allBackups' = allBackups \o results
          /\ results' = <<>>
          /\ idx' = 1
          /\ pc' = AfterDirectories
     ELSE /\ idx' = idx + 1
          /\ UNCHANGED << allBackups, results, pc >>
  /\ UNCHANGED << tempDir, pending >>

\* catch (error) { logger.error(`Failed to backup directory ...`); throw error; }
backupDirectories_catch(name) ==
  /\ log' = log \cup {"Failed to backup directory"}
  /\ pending' = Thrown("capture", name)
  /\ pc' = "catch"
  /\ UNCHANGED << tempDir, allBackups, results, idx >>

\* One iteration of the loop of backupDirectories: backupDirectory resolves
\* with an artifact, or rejects and the loop rethrows.
backupDirectories_step(ok, elapsed) ==
  /\ pc = "dirs"
  /\ idx <= Len(config.directories)
  /\ clock' = clock + elapsed
  /\ LET name == config.directories[idx]
         art == Artifact(name, backupTimestamp)
     IN  /\ captureLog' = Append(captureLog,
              [run |-> run, type |-> "directory", name |-> name, ok |-> ok,
               file |-> basename(art.path), entry |-> <<>>])
         /\ IF ok
            THEN /\ tempDir' = [tempDir EXCEPT !.files = @ \cup {basename(art.path)}]
                 /\ IF idx = Len(config.directories)
                    THEN /\ allBackups' = allBackups \o Append(results, art)
                         /\ results' = <<>>
                         /\ idx' = 1
                         /\ pc' = AfterDirectories
                    ELSE /\ results' = Append(results, art)
                         /\ idx' = idx + 1
                         /\ UNCHANGED << allBackups, pc >>
                 /\ UNCHANGED << pending, log >>
            ELSE backupDirectories_catch(name)
  /\ UNCHANGED << captureVars, auditVars, cliVars, concVars, calls, pruneOutcome, config, invocations, remote, run, startTime, backupTimestamp, uploads,
                  listing, now, deletedCount, outcome, putLog, deleteLog >>

\* Variant: the catch block logs the failure and the capture is tried again.
backupDatabases_catch_retry(name) ==
  /\ log' = log \cup {"Failed to backup database"}
  /\ UNCHANGED << tempDir, allBackups, results, idx, pending, pc >>

\* catch (error) { logger.error(`Failed to backup database ...`); throw error; }
backupDatabases_catch(name) ==
  /\ log' = log \cup {"Failed to backup database"}
  /\ pending' = Thrown("capture", name)
  /\ pc' = "catch"
  /\ UNCHANGED << tempDir, allBackups, results, idx >>

\* One iteration of the loop of backupDatabases.
backupDatabases_step(ok, elapsed) ==
  /\ pc = "dbs"
  /\ idx <= Len(config.databases)
  /\ clock' = clock + elapsed
  /\ LET name == config.databases[idx]
         art == Artifact(name, backupTimestamp)
     IN  /\ captureLog' = Append(captureLog,
              [run |-> run, type |-> "database", name |-> name, ok |-> ok,
               file |-> basename(art.path), entry |-> sqlFilename(name, backupTimestamp)])
         /\ IF ok
            THEN /\ tempDir' = [tempDir EXCEPT !.files = @ \cup {basename(art.path)}]
                 /\ IF idx = Len(config.databases)
                    THEN /\ allBackups' = allBackups \o Append(results, art)
                         /\ results' = <<>>
                         /\ idx' = 1
                         /\ pc' = "check"
                    ELSE /\ results' = Append(results, art)
                         /\ idx' = idx + 1
                         /\ UNCHANGED << allBackups, pc >>
                 /\ UNCHANGED << pending, log >>
            ELSE backupDatabases_catch(name)
  /\ UNCHANGED << captureVars, auditVars, cliVars, concVars, calls, pruneOutcome, config, invocations, remote, run, startTime, backupTimestamp, uploads,
                  listing, now, deletedCount, outcome, putLog, deleteLog >>

NothingToBackUp == [success |-> TRUE, uploads |-> <<>>]

\* Variant: no short-circuit for an empty artifact list.
runBackup_checkEmpty_never ==
  /\ pc = "check"
  /\ pc' = "upload"
  /\ log' = log \cup {"Uploading backups to S3..."}
  /\ idx' = 1
  /\ results' = <<>>
  /\ UNCHANGED << captureVars, auditVars, cliVars, concVars, calls, pruneOutcome, config, invocations, clock, remote, run, startTime, backupTimestamp,
                  tempDir, allBackups, uploads, listing, now, deletedCount, pending,
                  outcome, captureLog, putLog, deleteLog >>

\* if (allBackups.length === 0) return { success: true, uploads: [] }
runBackup_checkEmpty ==
  /\ pc = "check"
  /\ IF Len(allBackups) = 0
     THEN /\ log' = log \cup {"No backups to process"}
          /\ pending' = Returned(NothingToBackUp)
          /\ pc' = "finally"
     ELSE /\ pc' = "upload"
          /\ log' = log \cup {"Uploading backups to S3..."}
          /\ UNCHANGED pending
  /\ idx' = 1
  /\ results' = <<>>
  /\ UNCHANGED << captureVars, auditVars, cliVars, concVars, calls, pruneOutcome, config, invocations, clock, remote, run, startTime, backupTimestamp, tempDir,
                  allBackups, uploads, listing, now, deletedCount, outcome,
                  captureLog, putLog, deleteLog >>

\* config.backup.retention: the schema defaults it to an object, so the
\* retention cleanup runs in every run that uploaded.
AfterUpload == "prune"

\* Variant: the failure is kept and the retention cleanup runs all the same.
uploadBackups_catch_thenPrune(backup) ==
  /\ log' = log \cup {"Failed to upload backup"}
  /\ pending' = Thrown("upload", backup.name)
  /\ pc' = "prune"
  /\ UNCHANGED << remote, results, idx >>

\* Variant: the catch block logs the failure and the loop goes on.
uploadBackups_catch_swallow(backup) ==
  /\ log' = log \cup {"Failed to upload backup"}
  /\ idx' = idx + 1
  /\ pc' = "upload"
  /\ UNCHANGED << remote, results, pending >>

\* catch (error) { logger.error(`Failed to upload backup ...`); throw error; }
uploadBackups_catch(backup) ==
  /\ log' = log \cup {"Failed to upload backup"}
  /\ pending' = Thrown("upload", backup.name)
  /\ pc' = "catch"
  /\ UNCHANGED << remote, results, idx >>

\* One iteration of the loop of uploadBackups (uploadFile resolves or
\* rejects), or the return of uploadBackups when the loop has no iteration left.
uploadBackups_step(ok) ==
  /\ pc = "upload"
  /\ IF idx > Len(allBackups)
     THEN /\ uploads' = results
          /\ pc' = AfterUpload
          /\ UNCHANGED << remote, results, idx, pending, log, putLog >>
     ELSE LET backup == allBackups[idx]
              key == s3Key(backup)
          IN  /\ putLog' = Append(putLog,
                   [run |-> run, key |-> key, name |-> backup.name,
                    file |-> basename(backup.path), index |-> idx, ok |-> ok])
              /\ IF ok
                 THEN /\ remote' = PutObject(remote, key, clock, run)
                      /\ results' = Append(results,
                           [fileName |-> basename(backup.path), s3Key |-> key])
                      /\ idx' = idx + 1
                      /\ UNCHANGED << pending, log >>
                      /\ pc' = "upload"
                 ELSE uploadBackups_catch(backup)
              /\ UNCHANGED uploads
  /\ UNCHANGED << captureVars, auditVars, cliVars, concVars, calls, pruneOutcome, config, invocations, clock, run, startTime, backupTimestamp, tempDir,
                  allBackups, listing, now, deletedCount, outcome,
                  captureLog, deleteLog >>

\* cleanupOldBackups up to the loop: listBackups(`${projectName}/`) and
\* now = new Date().  A listing failure is logged and rethrown.
cleanupOldBackups_list(ok) ==
  /\ pc = "prune"
  /\ IF ok
     THEN /\ listing' = ListObjectsV2(remote, cleanupPrefix)
          /\ now' = clock
          /\ deletedCount' = 0
          /\ idx' = 1
          /\ pc' = "pruneLoop"
          /\ UNCHANGED << log, pruneOutcome >>
     ELSE /\ log' = log \cup {"Failed to cleanup old backups"}
          /\ pruneOutcome' = Thrown("prune", <<>>)
          /\ pc' = "pruneThrew"
          /\ UNCHANGED << listing, now, deletedCount, idx >>
  /\ UNCHANGED << captureVars, auditVars, cliVars, concVars, calls, config, invocations, clock, remote, run, startTime,
                  backupTimestamp, tempDir, results, allBackups, uploads, pending,
                  outcome, captureLog, putLog, deleteLog >>

\* Variant: a failed delete is logged and the loop goes on.
cleanupOldBackups_catch_swallow ==
  /\ log' = log \cup {"Failed to cleanup old backups"}
  /\ idx' = idx + 1
  /\ pc' = "pruneLoop"
  /\ UNCHANGED << remote, deletedCount, pruneOutcome >>

\* catch (error) { logger.error(`Failed to cleanup old backups ...`); throw error; }
cleanupOldBackups_catch ==
  /\ log' = log \cup {"Failed to cleanup old backups"}
  /\ pruneOutcome' = Thrown("prune", <<>>)
  /\ pc' = "pruneThrew"
  /\ UNCHANGED << remote, deletedCount, idx >>

\* One iteration of the loop of cleanupOldBackups, or its return of
\* { deletedCount } when the loop has no iteration left.  A failing
\* deleteBackup is logged by the catch block and rethrown.
cleanupOldBackups_step(ok) ==
  /\ pc = "pruneLoop"
  /\ IF idx > Len(listing)
     THEN /\ pruneOutcome' = Returned([deletedCount |-> deletedCount])
          /\ pc' = "pruneReturned"
          /\ log' = IF deletedCount > 0 THEN log \cup {"Cleaned up old backup(s)"} ELSE log
          /\ UNCHANGED << remote, idx, deletedCount, deleteLog >>
     ELSE LET backup == listing[idx]
              daysDiff == daysDiffOf(now, backup.LastModified)
              r == config.retention
          IN  IF shouldDelete(daysDiff, r.daily, r.weekly, r.monthly)
              THEN /\ deleteLog' = Append(deleteLog,
                        [run |-> run, call |-> calls, key |-> backup.Key,
                         daysDiff |-> daysDiff, writer |-> backup.run,
                         index |-> idx, ok |-> ok])
                   /\ IF ok
                      THEN /\ remote' = DeleteObject(remote, backup.Key)
                           /\ deletedCount' = deletedCount + 1
                           /\ idx' = idx + 1
                           /\ pc' = "pruneLoop"
                           /\ UNCHANGED << pruneOutcome, log >>
                      ELSE cleanupOldBackups_catch
              ELSE /\ idx' = idx + 1
                   /\ pc' = "pruneLoop"
                   /\ UNCHANGED << remote, deletedCount, deleteLog, pruneOutcome, log >>
  /\ UNCHANGED << captureVars, auditVars, cliVars, concVars, calls, config, invocations, clock, run, startTime, backupTimestamp,
                  tempDir, results, allBackups, uploads, listing, now, pending,
                  outcome, captureLog, putLog >>

\* runBackup resumes after `await this.s3Uploader.cleanupOldBackups(...)`:
\* the returned count is dropped and the run's result returned; a rejection
\* reaches runBackup's catch.
runBackup_afterPrune ==
  /\ pc \in {"pruneReturned", "pruneThrew"}
  /\ calls = 0
  /\ IF pc = "pruneReturned"
     THEN /\ pending' = Returned([success |-> TRUE, backups |-> Len(allBackups),
                                  uploads |-> uploads])
          /\ log' = log \cup {"Backup process completed successfully"}
          /\ pc' = "finally"
     ELSE /\ pending' = pruneOutcome
          /\ pc' = "catch"
          /\ UNCHANGED log
  /\ UNCHANGED << captureVars, auditVars, cliVars, concVars, calls, config, invocations, clock, remote, run, startTime,
                  backupTimestamp, tempDir, idx, results, allBackups, uploads,
                  listing, now, deletedCount, outcome, captureLog, putLog,
                  deleteLog, pruneOutcome >>

\* catch (error) { logger.error(`Backup failed: ...`); throw error; }
runBackup_catch ==
  /\ pc = "catch"
  /\ log' = log \cup {"Backup failed"}
  /\ pc' = "finally"
  /\ UNCHANGED << captureVars, auditVars, cliVars, concVars, calls, pruneOutcome, config, invocations, clock, remote, run, startTime, backupTimestamp, tempDir,
                  idx, results, allBackups, uploads, listing, now, deletedCount,
                  pending, outcome, captureLog, putLog, deleteLog >>

\* Variant: cleanup runs at the end of the try block instead of in finally.
cleanup_onSuccessOnly(rmOk) ==
  /\ pc = "finally"
  /\ IF tempDir.exists /\ pending.kind = "returned"
     THEN IF rmOk
          THEN /\ tempDir' = [exists |-> FALSE, files |-> {}, mode |-> {}]
               /\ UNCHANGED log
          ELSE /\ log' = log \cup {"Failed to cleanup temp directory"}
               /\ UNCHANGED tempDir
     ELSE UNCHANGED << tempDir, log >>
  /\ outcome' = pending
  /\ pc' = "Done"
  /\ UNCHANGED << captureVars, auditVars, cliVars, concVars, calls, pruneOutcome, config, invocations, clock, remote, run, startTime, backupTimestamp,
                  idx, results, allBackups, uploads, listing, now, deletedCount,
                  pending, captureLog, putLog, deleteLog >>

\* finally { await this.cleanup(); }: the staging root is removed when it
\* exists; a failing rmSync is caught and logged as a warning.
cleanup(rmOk) ==
  /\ pc = "finally"
  /\ IF tempDir.exists
     THEN IF rmOk
          THEN /\ tempDir' = [exists |-> FALSE, files |-> {}, mode |-> {}]
               /\ UNCHANGED log
          ELSE /\ log' = log \cup {"Failed to cleanup temp directory"}
               /\ UNCHANGED tempDir
     ELSE UNCHANGED << tempDir, log >>
  /\ outcome' = pending
  /\ pc' = "Done"
  /\ UNCHANGED << captureVars, auditVars, cliVars, concVars, calls, pruneOutcome, config, invocations, clock, remote, run, startTime, backupTimestamp,
                  idx, results, allBackups, uploads, listing, now, deletedCount,
                  pending, captureLog, putLog, deleteLog >>

Next ==
  \/ \E elapsed \in IdleTimes : constructor(elapsed)
  \/ \E ok \in BOOLEAN : runBackup_begin(ok)
  \/ \E ok \in BOOLEAN, elapsed \in CaptureTimes : backupDirectories_step(ok, elapsed)
  \/ \E ok \in BOOLEAN, elapsed \in CaptureTimes : backupDatabases_step(ok, elapsed)
  \/ runBackup_checkEmpty
  \/ \E ok \in BOOLEAN : uploadBackups_step(ok)
  \/ \E ok \in BOOLEAN : cleanupOldBackups_list(ok)
  \/ \E ok \in BOOLEAN : cleanupOldBackups_step(ok)
  \/ runBackup_afterPrune
  \/ runBackup_catch
  \/ \E ok \in BOOLEAN : cleanup(ok)

Spec == Init /\ [][Next]_vars

\* ------------------------------------- cleanupOldBackups called directly
\* An object of the given age whose key is told apart by its second.
OldObjectAt(project, name, age, second) ==
  LET date == Clock0 - age * TicksPerDay - (TicksPerDay \div 2) - second * TicksPerSec
  IN  [ Key |-> project \o <<"/">> \o name \o <<"/">> \o name \o <<"_">>
                  \o generateTimestamp(date) \o <<".tar.gz">>,
        LastModified |-> date,
        run |-> 0 ]

ExamplePolicy == [daily |-> 7, weekly |-> 2, monthly |-> 1]
ExampleAges == <<3, 10, 20, 35, 95>>

\* The ages of the retention example, next to an old object of a project
\* whose name begins with this project's name.
ExampleStore ==
  [i \in 1..Len(ExampleAges) |-> OldObjectAt(ProjectName, <<"w">>, ExampleAges[i], 0)]
    \o << OldObjectAt(OtherProject, <<"w">>, 400, 0) >>

\* One object more than a listing response holds: an expired object, then
\* recent ones, then an expired object again.
OverflowStore ==
  [i \in 1..(MaxKeys + 1) |->
     OldObjectAt(ProjectName, <<"w">>, IF i = 1 \/ i = MaxKeys + 1 THEN 95 ELSE 3, i)]

PruneStores ==
  {ExampleStore, OverflowStore}
    \cup { << OldObjectAt(ProjectName, <<"w">>, age, 0),
             OldObjectAt(OtherProject, <<"w">>, age, 0) >> : age \in 0..MaxAge }

PrunePolicies ==
  [daily : {0, 7, 28, 40}, weekly : {0, 2, 4}, monthly : {0, 1, 12}]

InitPrune ==
  /\ umask = DefaultUmask
  /\ config \in [directories : {<<>>}, databases : {<<>>},
                  retention : PrunePolicies \cup {ExamplePolicy}]
  /\ invocations = 0
  /\ remote \in PruneStores
  /\ (remote = OverflowStore => config.retention = ExamplePolicy)
  /\ InitIdle
  /\ CaptureIdle

\* A caller of the exported S3Uploader invokes cleanupOldBackups, and again
\* once it has returned.
cleanupOldBackups_call ==
  /\ pc \in {"Idle", "pruneReturned"}
  /\ calls < MaxPruneCalls
  /\ calls' = calls + 1
  /\ pc' = "prune"
  /\ UNCHANGED << captureVars, auditVars, cliVars, concVars, config, invocations, clock, remote, run, startTime,
                  backupTimestamp, tempDir, idx, results, allBackups, uploads,
                  listing, now, deletedCount, pending, outcome, log, captureLog,
                  putLog, deleteLog, pruneOutcome >>

NextPrune ==
  \/ cleanupOldBackups_call
  \/ \E ok \in BOOLEAN : cleanupOldBackups_list(ok)
  \/ \E ok \in BOOLEAN : cleanupOldBackups_step(ok)

SpecPrune == InitPrune /\ [][NextPrune]_vars

\* ------------------------------- cleanupOldBackups over one object's age
\* The oldest object looked at, in days.
MaxDays == 400

\* cleanupOldBackups: const { daily = 7, weekly = 4, monthly = 12 }
DefaultPolicy == [daily |-> 7, weekly |-> 4, monthly |-> 12]

\* Policies whose weekly count is 4 or more; the default is one of them.
WeeklyPolicies == [daily : {0, 7}, weekly : {4, 5, 52}, monthly : {0, 12}]

\* A store holding one object of the project, of any age up to MaxDays.
AgedStores == { << OldObjectAt(ProjectName, <<"w">>, age, 0) >> : age \in 0..MaxDays }

InitPolicy ==
  /\ umask = DefaultUmask
  /\ config \in [directories : {<<>>}, databases : {<<>>}, retention : WeeklyPolicies]
  /\ invocations = 0
  /\ remote \in AgedStores
  /\ InitIdle
  /\ CaptureIdle

SpecPolicy == InitPolicy /\ [][NextPrune]_vars

SpecRepeated == InitRepeated /\ [][Next]_vars

\* ------------------------------------------ backupDatabase called directly
\* sanitizeFilePath throws when the path holds a traversal pattern.
HasTraversal(filePath) == \E i \in 1..Len(filePath) : filePath[i] = ".."

\* createSecureTempFile: path.join(os.tmpdir(), `${prefix}-${random}${suffix}`);
\* rnd stands for the 16 random bytes of the call.
tempPath(prefix, rnd, suffix) == <<"/tmp/">> \o prefix \o <<"-", rnd, suffix>>

DumpFilePath(c) == tempPath(<<c.type, "-">> \o sanitizeString(c.name), "r1", ".sql")
DumpArchivePath(c) == tempPath(<<c.type, "-">> \o sanitizeString(c.name), "r2", ".tar.gz")
ConfigFilePath(c) == tempPath(<<c.type, "-config">>, "r3", ".cnf")

\* The timestamp the caller hands to the capture.
CaptureTimestamp == generateTimestamp(Clock0)

finalArchivePath(name) ==
  outputPath \o <<"/">>
    \o generateTimestampedFilename(sanitizeString(name), ".tar.gz", CaptureTimestamp)

ExternalConfigFile == <<"/etc/", "backup.cnf">>

DbConfigs ==
  [ name : DatabaseNames,
    type : {"mysql", "mariadb", "postgres"},
    host : {<<"d", "b">>},
    username : {<<"u">>},
    password : {<<>>, <<"s", "3">>},
    database : {<<"a", "p", "p">>},
    configFile : {Null, ExternalConfigFile} ]

OutputPaths == { <<"/tmp/", "backup-to-s3">>, <<"..", "/", "out">> }

\* Variant: the credential file always carries the password line.
passwordLine_always(password) == <<"password=">> \o password

\* createMySQLConfigFile, the line for the password.
passwordLine(password) ==
  IF password # Null /\ Len(password) > 0
  THEN <<"password=">> \o password
  ELSE <<"# No password required">>

\* createMySQLConfigFile, configContent as its lines; a line is its leading
\* text followed by the characters of the interpolated value.
configContent(c) ==
  << <<"[client]">>,
     <<"host=">> \o sanitizeString(c.host),
     <<"port=", "3306">>,
     <<"user=">> \o sanitizeString(c.username),
     passwordLine(c.password),
     <<"default-character-set=", "utf8mb4">> >>

\* backupMySQL, the argument vector of mysqldump.
mysqldumpArgs(path, type, password, database) ==
  LET args == << <<"--defaults-file=">> \o path,
                 <<"--single-transaction">>, <<"--routines">>, <<"--triggers">>,
                 <<"--events">>, <<"--add-drop-table">>, <<"--add-drop-database">>,
                 <<"--create-options">>, <<"--disable-keys">>, <<"--extended-insert">>,
                 <<"--quick">>, <<"--lock-tables=false">>,
                 sanitizeString(database) >>
      withEngine == IF type = "mariadb"
                    THEN args \o << <<"--skip-add-locks">>, <<"--skip-comments">> >>
                    ELSE args
  IN  IF password = Null \/ Len(password) = 0
      THEN Append(withEngine, <<"--skip-password">>)
      ELSE withEngine

\* type.toUpperCase()
toUpperCase(type) ==
  CASE type = "mysql" -> "MYSQL"
    [] type = "mariadb" -> "MARIADB"
    [] OTHER -> "POSTGRES"

SetMode(m, file, bits) ==
  [f \in (DOMAIN m) \cup {file} |-> IF f = file THEN bits ELSE m[f]]

RemoveMode(m, file) == [f \in (DOMAIN m) \ {file} |-> m[f]]

\* Variant: the copy is created like any new file, with 0666 less the umask.
copyFileSync_mode_default(srcMode) == createMode(Mode666)

\* fs.copyFileSync(src, dest): the destination gets the source's permission
\* bits.
copyFileSync_mode(srcMode) == srcMode

\* What mysqldump may write: bytes to stdout ("c3", "a9" is the UTF-8
\* encoding of one two-byte character), text to stderr.
ToolOutputs == { <<"a">>, <<"a", "c3", "a9">> }
ToolErrors == { <<"E", "x">>, <<"E", "y">> }

RECURSIVE toString(_)
\* Buffer.prototype.toString(): UTF-8 decoding of one chunk on its own; a
\* byte that does not complete a sequence inside the chunk becomes U+FFFD.
toString(chunk) ==
  IF chunk = <<>> THEN <<>>
  ELSE IF chunk[1] = "c3"
       THEN IF Len(chunk) >= 2 /\ chunk[2] = "a9"
            THEN <<"U+E9">> \o toString(SubSeq(chunk, 3, Len(chunk)))
            ELSE <<"U+FFFD">> \o toString(Tail(chunk))
       ELSE IF chunk[1] = "a9"
            THEN <<"U+FFFD">> \o toString(Tail(chunk))
            ELSE <<chunk[1]>> \o toString(Tail(chunk))

RECURSIVE utf8Bytes(_)
\* The UTF-8 encoding of a string, as writeFileSync(file, string) writes it.
utf8Bytes(str) ==
  IF str = <<>> THEN <<>>
  ELSE (CASE str[1] = "U+E9" -> <<"c3", "a9">>
          [] str[1] = "U+FFFD" -> <<"ef", "bf", "bd">>
          [] OTHER -> <<str[1]>>) \o utf8Bytes(Tail(str))

\* Variant: the error thrown to the caller carries the caught error's message.
thrownMessage_raw(type, name, error) ==
  <<toUpperCase(type), " backup failed for ">> \o name \o <<": ">> \o error

\* backupMySQL line 156, the message of the error thrown to the caller.
thrownMessage(type, name, error) ==
  <<toUpperCase(type), " backup failed for ">> \o name \o <<": Command execution failed">>

Rejected(message) == [kind |-> "rejected", message |-> message]
Resolved(result) == [kind |-> "resolved", result |-> result]

\* A step that can fail: at most MaxFaults failures are injected per call.
Inject(ok) ==
  /\ (ok \/ faults < MaxFaults)
  /\ faults' = IF ok THEN faults ELSE faults + 1

InitDump ==
  /\ config = [directories |-> <<>>, databases |-> <<>>, retention |-> ExamplePolicy]
  /\ invocations = 0
  /\ remote = <<>>
  /\ InitIdle
  /\ umask \in Umasks
  /\ IoIdle
  /\ AuditIdle
  /\ CliIdle
  /\ ConcIdle
  /\ dbConfig \in DbConfigs
  /\ outputPath \in OutputPaths
  /\ directoryConfig = Null
  /\ cpc = "backupDatabase"
  /\ disk = IF dbConfig.configFile # Null THEN {dbConfig.configFile} ELSE {}
  /\ faults = 0
  /\ dumpFile = Null
  /\ tempArchivePath = Null
  /\ tempConfigFile = Null
  /\ configPath = Null
  /\ cnf = Null
  /\ spawned = <<>>
  /\ capturePending = NoOutcome
  /\ captureOutcome = NoOutcome

\* Variant: the default case runs the MySQL dump as well.
backupDatabase_case_any(type) == "backupMySQL"

\* backupDatabase, the case of the switch the type selects.
backupDatabase_case(type) ==
  IF type = "mysql" THEN "backupMySQL"
  ELSE IF type = "mariadb" THEN "backupMariaDB"
  ELSE "default"

\* backupDatabase: the switch; backupMariaDB calls backupMySQL.
backupDatabase ==
  /\ cpc = "backupDatabase"
  /\ IF backupDatabase_case(dbConfig.type) = "default"
     THEN /\ captureOutcome' = Rejected(<<"Unsupported database type: ", dbConfig.type,
                                      ". Only MySQL and MariaDB are supported.">>)
          /\ cpc' = "settled"
     ELSE /\ cpc' = "dumpFile"
          /\ UNCHANGED captureOutcome
  /\ UNCHANGED << orchVars, auditVars, cliVars, concVars, ioVars, disk, faults, dbConfig, directoryConfig,
                  outputPath, dumpFile, tempArchivePath, tempConfigFile, configPath,
                  cnf, spawned, capturePending >>

\* backupMySQL line 85: dumpFile = createSecureTempFile(..., '.sql'), outside
\* the try block.
backupMySQL_dumpFile(ok) ==
  /\ cpc = "dumpFile"
  /\ Inject(ok)
  /\ IF ok
     THEN /\ disk' = disk \cup {DumpFilePath(dbConfig)}
          /\ modes' = SetMode(modes, DumpFilePath(dbConfig), createMode(Mode600))
          /\ dumpFile' = DumpFilePath(dbConfig)
          /\ cpc' = "tempArchivePath"
          /\ UNCHANGED captureOutcome
     ELSE /\ captureOutcome' = Rejected(<<"openSync">>)
          /\ cpc' = "settled"
          /\ UNCHANGED << disk, modes, dumpFile >>
  /\ UNCHANGED << orchVars, auditVars, cliVars, concVars, umask, toolStdout, toolStderr, stdout, delivered,
                  caught, dumpContent, archiveEntries, dbConfig, directoryConfig,
                  outputPath, tempArchivePath, tempConfigFile, configPath, cnf,
                  spawned, capturePending >>

\* backupMySQL line 86: tempArchivePath = createSecureTempFile(..., '.tar.gz'),
\* outside the try block.
backupMySQL_tempArchivePath(ok) ==
  /\ cpc = "tempArchivePath"
  /\ Inject(ok)
  /\ IF ok
     THEN /\ disk' = disk \cup {DumpArchivePath(dbConfig)}
          /\ modes' = SetMode(modes, DumpArchivePath(dbConfig), createMode(Mode600))
          /\ tempArchivePath' = DumpArchivePath(dbConfig)
          /\ cpc' = "finalArchivePath"
          /\ UNCHANGED captureOutcome
     ELSE /\ captureOutcome' = Rejected(<<"openSync">>)
          /\ cpc' = "settled"
          /\ UNCHANGED << disk, modes, tempArchivePath >>
  /\ UNCHANGED << orchVars, auditVars, cliVars, concVars, umask, toolStdout, toolStderr, stdout, delivered,
                  caught, dumpContent, archiveEntries, dbConfig, directoryConfig,
                  outputPath, dumpFile, tempConfigFile, configPath, cnf, spawned,
                  capturePending >>

\* backupMySQL lines 87-92: sanitizeFilePath(outputPath), outside the try
\* block; tempConfigFile = null.
backupMySQL_finalArchivePath ==
  /\ cpc = "finalArchivePath"
  /\ IF HasTraversal(outputPath)
     THEN /\ captureOutcome' = Rejected(<<"Path traversal detected in file path">>)
          /\ cpc' = "settled"
     ELSE /\ cpc' = "configPath"
          /\ UNCHANGED captureOutcome
  /\ UNCHANGED << orchVars, auditVars, cliVars, concVars, ioVars, disk, faults, dbConfig, directoryConfig,
                  outputPath, dumpFile, tempArchivePath, tempConfigFile, configPath,
                  cnf, spawned, capturePending >>

\* backupMySQL lines 96-98: the external config file, or createMySQLConfigFile
\* up to its createSecureTempFile.
backupMySQL_configPath(ok) ==
  /\ cpc = "configPath"
  /\ IF dbConfig.configFile # Null
     THEN /\ ok
          /\ configPath' = dbConfig.configFile
          /\ cpc' = "spawn"
          /\ UNCHANGED << disk, modes, faults, caught >>
     ELSE /\ Inject(ok)
          /\ IF ok
             THEN /\ disk' = disk \cup {ConfigFilePath(dbConfig)}
                  /\ modes' = SetMode(modes, ConfigFilePath(dbConfig), createMode(Mode600))
                  /\ cpc' = "writeConfig"
                  /\ UNCHANGED caught
             ELSE /\ caught' = <<"openSync">>
                  /\ cpc' = "catch"
                  /\ UNCHANGED << disk, modes >>
          /\ UNCHANGED configPath
  /\ UNCHANGED << orchVars, auditVars, cliVars, concVars, umask, toolStdout, toolStderr, stdout, delivered,
                  dumpContent, archiveEntries, dbConfig, directoryConfig, outputPath,
                  dumpFile, tempArchivePath, tempConfigFile, cnf, spawned,
                  capturePending, captureOutcome >>

\* createMySQLConfigFile lines 62-75: writeFileSync(configPath, configContent);
\* its return value is assigned to tempConfigFile.
createMySQLConfigFile(ok) ==
  /\ cpc = "writeConfig"
  /\ Inject(ok)
  /\ IF ok
     THEN /\ cnf' = configContent(dbConfig)
          /\ tempConfigFile' = ConfigFilePath(dbConfig)
          /\ configPath' = ConfigFilePath(dbConfig)
          /\ cpc' = "spawn"
          /\ UNCHANGED caught
     ELSE /\ caught' = <<"writeFileSync">>
          /\ cpc' = "catch"
          /\ UNCHANGED << cnf, tempConfigFile, configPath >>
  /\ UNCHANGED << orchVars, auditVars, cliVars, concVars, umask, modes, toolStdout, toolStderr, stdout,
                  delivered, dumpContent, archiveEntries, disk, dbConfig,
                  directoryConfig, outputPath, dumpFile, tempArchivePath, spawned,
                  capturePending, captureOutcome >>

\* backupMySQL lines 100-132 and execSecureCommand lines 14-20: the argument
\* vector is built and mysqldump spawned; what the child will write is the
\* child's choice.
execSecureCommand ==
  /\ cpc = "spawn"
  /\ spawned' = Append(spawned,
       mysqldumpArgs(configPath, dbConfig.type, dbConfig.password, dbConfig.database))
  /\ toolStdout' \in ToolOutputs
  /\ toolStderr' \in ToolErrors
  /\ stdout' = <<>>
  /\ delivered' = 0
  /\ cpc' = "child"
  /\ UNCHANGED << orchVars, auditVars, cliVars, concVars, umask, modes, caught, dumpContent, archiveEntries,
                  disk, faults, dbConfig, directoryConfig, outputPath, dumpFile,
                  tempArchivePath, tempConfigFile, configPath, cnf, capturePending,
                  captureOutcome >>

\* child.stdout.on('data'), lines 22-24: the next n bytes arrive as one
\* chunk and stdout += data.toString().
child_stdout_data(n) ==
  /\ cpc = "child"
  /\ delivered + n <= Len(toolStdout)
  /\ stdout' = stdout \o toString(SubSeq(toolStdout, delivered + 1, delivered + n))
  /\ delivered' = delivered + n
  /\ UNCHANGED << orchVars, auditVars, cliVars, concVars, umask, modes, toolStdout, toolStderr, caught,
                  dumpContent, archiveEntries, cpc, disk, faults, dbConfig,
                  directoryConfig, outputPath, dumpFile, tempArchivePath,
                  tempConfigFile, configPath, cnf, spawned, capturePending,
                  captureOutcome >>

\* child.on('close'), lines 30-36: code 0 resolves, another code rejects
\* with `Command failed with code ${code}: ${stderr}`.
child_close(code) ==
  /\ cpc = "child"
  /\ delivered = Len(toolStdout)
  /\ Inject(code = 0)
  /\ IF code = 0
     THEN /\ cpc' = "writeDump"
          /\ UNCHANGED caught
     ELSE /\ caught' = <<"Command failed with code ", ToString(code), ": ">> \o toolStderr
          /\ cpc' = "catch"
  /\ UNCHANGED << orchVars, auditVars, cliVars, concVars, umask, modes, toolStdout, toolStderr, stdout,
                  delivered, dumpContent, archiveEntries, disk, dbConfig,
                  directoryConfig, outputPath, dumpFile, tempArchivePath,
                  tempConfigFile, configPath, cnf, spawned, capturePending,
                  captureOutcome >>

\* child.on('error'), lines 38-40: the process could not be spawned.
child_error ==
  /\ cpc = "child"
  /\ delivered = 0
  /\ Inject(FALSE)
  /\ caught' = <<"spawn mysqldump ENOENT">>
  /\ cpc' = "catch"
  /\ UNCHANGED << orchVars, auditVars, cliVars, concVars, umask, modes, toolStdout, toolStderr, stdout,
                  delivered, dumpContent, archiveEntries, disk, dbConfig,
                  directoryConfig, outputPath, dumpFile, tempArchivePath,
                  tempConfigFile, configPath, cnf, spawned, capturePending,
                  captureOutcome >>

\* backupMySQL line 135: writeFileSync(dumpFile, result.stdout).
backupMySQL_writeDump(ok) ==
  /\ cpc = "writeDump"
  /\ Inject(ok)
  /\ IF ok
     THEN /\ dumpContent' = utf8Bytes(stdout)
          /\ cpc' = "archive"
          /\ UNCHANGED caught
     ELSE /\ caught' = <<"writeFileSync">>
          /\ cpc' = "catch"
          /\ UNCHANGED dumpContent
  /\ UNCHANGED << orchVars, auditVars, cliVars, concVars, umask, modes, toolStdout, toolStderr, stdout,
                  delivered, archiveEntries, disk, dbConfig, directoryConfig,
                  outputPath, dumpFile, tempArchivePath, tempConfigFile, configPath,
                  cnf, spawned, capturePending, captureOutcome >>

\* backupMySQL lines 138-139 and createCompressedArchive: the dump file is
\* the archive's one entry, under sqlFilename.
createCompressedArchive(ok) ==
  /\ cpc = "archive"
  /\ Inject(ok)
  /\ IF ok
     THEN /\ archiveEntries' =
               { [name |-> sqlFilename(dbConfig.name, CaptureTimestamp),
                  bytes |-> dumpContent] }
          /\ cpc' = "copy"
          /\ UNCHANGED caught
     ELSE /\ caught' = <<"archiver">>
          /\ cpc' = "catch"
          /\ UNCHANGED archiveEntries
  /\ UNCHANGED << orchVars, auditVars, cliVars, concVars, umask, modes, toolStdout, toolStderr, stdout,
                  delivered, dumpContent, disk, dbConfig, directoryConfig, outputPath,
                  dumpFile, tempArchivePath, tempConfigFile, configPath, cnf, spawned,
                  capturePending, captureOutcome >>

\* backupMySQL line 142: copyFileSync(tempArchivePath, finalArchivePath).
backupMySQL_copy(ok) ==
  /\ cpc = "copy"
  /\ Inject(ok)
  /\ IF ok
     THEN /\ disk' = disk \cup {finalArchivePath(dbConfig.name)}
          /\ modes' = SetMode(modes, finalArchivePath(dbConfig.name),
                              copyFileSync_mode(modes[tempArchivePath]))
          /\ cpc' = "chmod"
          /\ UNCHANGED caught
     ELSE /\ caught' = <<"copyFileSync">>
          /\ cpc' = "catch"
          /\ UNCHANGED << disk, modes >>
  /\ UNCHANGED << orchVars, auditVars, cliVars, concVars, umask, toolStdout, toolStderr, stdout, delivered,
                  dumpContent, archiveEntries, dbConfig, directoryConfig, outputPath,
                  dumpFile, tempArchivePath, tempConfigFile, configPath, cnf, spawned,
                  capturePending, captureOutcome >>

\* backupMySQL lines 143-153: chmodSync(finalArchivePath, 0o600), statSync
\* and the return.
backupMySQL_return(ok) ==
  /\ cpc = "chmod"
  /\ Inject(ok)
  /\ IF ok
     THEN /\ modes' = SetMode(modes, finalArchivePath(dbConfig.name), Mode600)
          /\ capturePending' = Resolved([name |-> dbConfig.name,
                                         path |-> finalArchivePath(dbConfig.name)])
          /\ cpc' = "finally"
          /\ UNCHANGED caught
     ELSE /\ caught' = <<"chmodSync">>
          /\ cpc' = "catch"
          /\ UNCHANGED << modes, capturePending >>
  /\ UNCHANGED << orchVars, auditVars, cliVars, concVars, umask, toolStdout, toolStderr, stdout, delivered,
                  dumpContent, archiveEntries, disk, dbConfig, directoryConfig,
                  outputPath, dumpFile, tempArchivePath, tempConfigFile, configPath,
                  cnf, spawned, captureOutcome >>

\* backupMySQL lines 154-156: the error is logged and replaced.
backupMySQL_catch ==
  /\ cpc = "catch"
  /\ capturePending' = Rejected(thrownMessage(dbConfig.type, dbConfig.name, caught))
  /\ cpc' = "finally"
  /\ UNCHANGED << orchVars, auditVars, cliVars, concVars, ioVars, disk, faults, dbConfig, directoryConfig,
                  outputPath, dumpFile, tempArchivePath, tempConfigFile, configPath,
                  cnf, spawned, captureOutcome >>

\* One `if (fs.existsSync(file)) fs.unlinkSync(file)` of the finally block;
\* a throwing unlinkSync ends the block and replaces the completion.
Unlink(file, present, ok, next) ==
  IF present /\ file \in disk
  THEN /\ Inject(ok)
       /\ IF ok
          THEN /\ disk' = disk \ {file}
               /\ modes' = RemoveMode(modes, file)
               /\ cpc' = next
               /\ captureOutcome' = IF next = "settled" THEN capturePending
                                    ELSE captureOutcome
          ELSE /\ captureOutcome' = Rejected(<<"unlinkSync">>)
               /\ cpc' = "settled"
               /\ UNCHANGED << disk, modes >>
  ELSE /\ ok
       /\ cpc' = next
       /\ captureOutcome' = IF next = "settled" THEN capturePending ELSE captureOutcome
       /\ UNCHANGED << disk, modes, faults >>

\* Variant: the finally block removes the config file mysqldump was given.
backupMySQL_finally_config_inUse(ok) ==
  /\ cpc = "finally"
  /\ Unlink(configPath, configPath # Null, ok, "finallyDump")
  /\ UNCHANGED << orchVars, auditVars, cliVars, concVars, umask, toolStdout, toolStderr, stdout, delivered,
                  caught, dumpContent, archiveEntries, dbConfig, directoryConfig,
                  outputPath, dumpFile, tempArchivePath, tempConfigFile, configPath,
                  cnf, spawned, capturePending >>

\* backupMySQL lines 159-161.
backupMySQL_finally_config(ok) ==
  /\ cpc = "finally"
  /\ Unlink(tempConfigFile, tempConfigFile # Null, ok, "finallyDump")
  /\ UNCHANGED << orchVars, auditVars, cliVars, concVars, umask, toolStdout, toolStderr, stdout, delivered,
                  caught, dumpContent, archiveEntries, dbConfig, directoryConfig,
                  outputPath, dumpFile, tempArchivePath, tempConfigFile, configPath,
                  cnf, spawned, capturePending >>

\* backupMySQL lines 162-164.
backupMySQL_finally_dump(ok) ==
  /\ cpc = "finallyDump"
  /\ Unlink(dumpFile, TRUE, ok, "finallyArchive")
  /\ UNCHANGED << orchVars, auditVars, cliVars, concVars, umask, toolStdout, toolStderr, stdout, delivered,
                  caught, dumpContent, archiveEntries, dbConfig, directoryConfig,
                  outputPath, dumpFile, tempArchivePath, tempConfigFile, configPath,
                  cnf, spawned, capturePending >>

\* backupMySQL lines 165-167, then the function completes.
backupMySQL_finally_archive(ok) ==
  /\ cpc = "finallyArchive"
  /\ Unlink(tempArchivePath, TRUE, ok, "settled")
  /\ UNCHANGED << orchVars, auditVars, cliVars, concVars, umask, toolStdout, toolStderr, stdout, delivered,
                  caught, dumpContent, archiveEntries, dbConfig, directoryConfig,
                  outputPath, dumpFile, tempArchivePath, tempConfigFile, configPath,
                  cnf, spawned, capturePending >>

NextDump ==
  \/ backupDatabase
  \/ \E ok \in BOOLEAN : backupMySQL_dumpFile(ok)
  \/ \E ok \in BOOLEAN : backupMySQL_tempArchivePath(ok)
  \/ backupMySQL_finalArchivePath
  \/ \E ok \in BOOLEAN : backupMySQL_configPath(ok)
  \/ \E ok \in BOOLEAN : createMySQLConfigFile(ok)
  \/ execSecureCommand
  \/ \E n \in 1..MaxChunk : child_stdout_data(n)
  \/ \E code \in {0, 1} : child_close(code)
  \/ child_error
  \/ \E ok \in BOOLEAN : backupMySQL_writeDump(ok)
  \/ \E ok \in BOOLEAN : createCompressedArchive(ok)
  \/ \E ok \in BOOLEAN : backupMySQL_copy(ok)
  \/ \E ok \in BOOLEAN : backupMySQL_return(ok)
  \/ backupMySQL_catch
  \/ \E ok \in BOOLEAN : backupMySQL_finally_config(ok)
  \/ \E ok \in BOOLEAN : backupMySQL_finally_dump(ok)
  \/ \E ok \in BOOLEAN : backupMySQL_finally_archive(ok)

SpecDump == InitDump /\ [][NextDump]_vars

\* ----------------------------------------- backupDirectory called directly
\* What the file system holds at the source paths: two directories and a
\* regular file; any other path does not exist.
Directories == { <<"/srv/", "w">>, <<"/srv/", "d">> }
RegularFiles == { <<"/srv/", "f">> }

DirPaths == Directories \cup RegularFiles \cup { <<"/srv/", "gone">>, <<"..", "/", "w">> }

\* What lies under a source directory, by path relative to it: regular
\* files (one a dotfile, one in a subdirectory), a symbolic link to a file
\* outside the directory, a symbolic link to a directory outside it, and
\* the file reached only through that link.
SourceTree ==
  { [path |-> <<"a">>, kind |-> "file", throughLink |-> FALSE, content |-> "A"],
    [path |-> <<".", "e">>, kind |-> "file", throughLink |-> FALSE, content |-> "E"],
    [path |-> <<"x", ".", "l">>, kind |-> "file", throughLink |-> FALSE, content |-> "X"],
    [path |-> <<"s", "/", "y", ".", "l">>, kind |-> "file", throughLink |-> FALSE,
     content |-> "Y"],
    [path |-> <<"k">>, kind |-> "symlink", throughLink |-> FALSE, content |-> "OUT1"],
    [path |-> <<"j">>, kind |-> "symlink", throughLink |-> FALSE, content |-> "DIR"],
    [path |-> <<"j", "/", "z">>, kind |-> "file", throughLink |-> TRUE,
     content |-> "OUT2"] }

\* exclude as the caller passes it: an array of patterns over the schema's
\* alphabet /^[a-zA-Z0-9_.*/-]+$/, or a value that is not an array (a
\* single pattern given as a string).
Excludes ==
  { [isArray |-> TRUE, patterns |-> <<>>],
    [isArray |-> TRUE, patterns |-> << <<"*", ".", "l">> >>],
    [isArray |-> TRUE, patterns |-> << <<".", "e">>, <<"s", "/", "*">> >>],
    [isArray |-> FALSE, patterns |-> <<>>] }

DirectoryConfigs == [name : DirectoryNames, path : DirPaths, exclude : Excludes]

DirArchivePath(c) == tempPath(<<"dir-">> \o sanitizeString(c.name), "r1", ".tar.gz")

\* backupDirectory lines 105-112: each pattern loses the dangerous
\* characters, and the patterns left empty are dropped.
safeExclude(patterns) ==
  SelectSeq([i \in 1..Len(patterns) |-> sanitizeString(patterns[i])],
            LAMBDA p : Len(p) > 0)

RECURSIVE minimatch(_, _)
\* A glob pattern against a relative path: `*` stands for any run of
\* characters other than '/', every other character for itself.
minimatch(pattern, str) ==
  IF pattern = <<>> THEN str = <<>>
  ELSE IF pattern[1] = "*"
       THEN \/ minimatch(Tail(pattern), str)
            \/ (str # <<>> /\ str[1] # "/" /\ minimatch(pattern, Tail(str)))
       ELSE str # <<>> /\ str[1] = pattern[1] /\ minimatch(Tail(pattern), Tail(str))

\* A path has a segment that begins with a dot.
HasDotSegment(str) ==
  \E i \in 1..Len(str) : str[i] = "." /\ (i = 1 \/ str[i - 1] = "/")

\* Variant: the glob follows symbolic links.
globOptions_follow == [dot |-> TRUE, follow |-> TRUE]

\* backupDirectory lines 114-120, the options of archive.glob.
globOptions == [dot |-> TRUE, follow |-> FALSE]

\* archive.glob('**/*', { cwd, ignore, dot, follow }): the entries under
\* cwd that no ignore pattern matches; dotfiles only with dot, what lies
\* behind a symbolic link only with follow.
glob(tree, ignore, options) ==
  { e \in tree :
      /\ (e.throughLink => options.follow)
      /\ (HasDotSegment(e.path) => options.dot)
      /\ \A i \in 1..Len(ignore) : ~minimatch(ignore[i], e.path) }

\* What the archiver stores for a match: a regular file's bytes; for a
\* symbolic link the link itself, or with follow what the link points to.
archived(matches, options) ==
  { [name |-> e.path,
     bytes |-> IF e.kind = "symlink" /\ ~options.follow THEN "link" ELSE e.content]
      : e \in matches }

InitArchive ==
  /\ config = [directories |-> <<>>, databases |-> <<>>, retention |-> ExamplePolicy]
  /\ invocations = 0
  /\ remote = <<>>
  /\ InitIdle
  /\ umask \in Umasks
  /\ IoIdle
  /\ AuditIdle
  /\ CliIdle
  /\ ConcIdle
  /\ directoryConfig \in DirectoryConfigs
  /\ outputPath \in OutputPaths
  /\ dbConfig = Null
  /\ cpc = "backupDirectory"
  /\ disk = Directories \cup RegularFiles
  /\ faults = 0
  /\ dumpFile = Null
  /\ tempArchivePath = Null
  /\ tempConfigFile = Null
  /\ configPath = Null
  /\ cnf = Null
  /\ spawned = <<>>
  /\ capturePending = NoOutcome
  /\ captureOutcome = NoOutcome

\* backupDirectory lines 29-46: the inputs are sanitized and the source is
\* checked, before any file is created.
backupDirectory_validate ==
  /\ cpc = "backupDirectory"
  /\ IF HasTraversal(directoryConfig.path) \/ HasTraversal(outputPath)
     THEN /\ captureOutcome' = Rejected(<<"Path traversal detected in file path">>)
          /\ cpc' = "settled"
     ELSE IF directoryConfig.path \notin disk
     THEN /\ captureOutcome' = Rejected(<<"Directory not found: ">> \o directoryConfig.path)
          /\ cpc' = "settled"
     ELSE IF directoryConfig.path \notin Directories
     THEN /\ captureOutcome' =
               Rejected(<<"Source path is not a directory: ">> \o directoryConfig.path)
          /\ cpc' = "settled"
     ELSE /\ cpc' = "dirTempArchivePath"
          /\ UNCHANGED captureOutcome
  /\ UNCHANGED << orchVars, auditVars, cliVars, concVars, ioVars, disk, faults, dbConfig, directoryConfig,
                  outputPath, dumpFile, tempArchivePath, tempConfigFile, configPath,
                  cnf, spawned, capturePending >>

\* backupDirectory lines 49-51: tempArchivePath = createSecureTempFile(...).
backupDirectory_tempArchivePath(ok) ==
  /\ cpc = "dirTempArchivePath"
  /\ Inject(ok)
  /\ IF ok
     THEN /\ disk' = disk \cup {DirArchivePath(directoryConfig)}
          /\ modes' = SetMode(modes, DirArchivePath(directoryConfig), createMode(Mode600))
          /\ tempArchivePath' = DirArchivePath(directoryConfig)
          /\ cpc' = "executor"
          /\ UNCHANGED captureOutcome
     ELSE /\ captureOutcome' = Rejected(<<"openSync">>)
          /\ cpc' = "settled"
          /\ UNCHANGED << disk, modes, tempArchivePath >>
  /\ UNCHANGED << orchVars, auditVars, cliVars, concVars, umask, toolStdout, toolStderr, stdout, delivered,
                  caught, dumpContent, archiveEntries, dbConfig, directoryConfig,
                  outputPath, dumpFile, tempConfigFile, configPath, cnf, spawned,
                  capturePending >>

\* An exception thrown by the executor of `new Promise(...)` rejects the
\* promise; no handler of the executor runs.
backupDirectory_executor_throw(message) ==
  /\ captureOutcome' = Rejected(message)
  /\ cpc' = "settled"
  /\ UNCHANGED << disk, archiveEntries >>

\* backupDirectory lines 53-122, the synchronous body of the executor: the
\* write stream and the archiver are created, the handlers registered,
\* exclude.map(...) computed, glob and finalize called.  exclude.map throws
\* when exclude is not an array; archiver(), pipe, glob or finalize may throw.
\* The archiver then writes what the glob matches.
backupDirectory_executor(ok) ==
  /\ cpc = "executor"
  /\ IF ~directoryConfig.exclude.isArray
     THEN /\ ok
          /\ backupDirectory_executor_throw(<<"exclude.map is not a function">>)
          /\ UNCHANGED faults
     ELSE /\ Inject(ok)
          /\ IF ok
             THEN /\ archiveEntries' =
                       archived(glob(SourceTree,
                                     safeExclude(directoryConfig.exclude.patterns),
                                     globOptions),
                                globOptions)
                  /\ cpc' = "archiving"
                  /\ UNCHANGED << disk, captureOutcome >>
             ELSE backupDirectory_executor_throw(<<"setup">>)
  /\ UNCHANGED << orchVars, auditVars, cliVars, concVars, umask, modes, toolStdout, toolStderr, stdout,
                  delivered, caught, dumpContent, dbConfig, directoryConfig,
                  outputPath, dumpFile, tempArchivePath, tempConfigFile, configPath,
                  cnf, spawned, capturePending >>

\* output.on('close'), line 65: copyFileSync(tempArchivePath, finalArchivePath);
\* when it throws, the catch block rejects.
output_close(ok) ==
  /\ cpc = "archiving"
  /\ Inject(ok)
  /\ IF ok
     THEN /\ disk' = disk \cup {finalArchivePath(directoryConfig.name)}
          /\ modes' = SetMode(modes, finalArchivePath(directoryConfig.name),
                              copyFileSync_mode(modes[tempArchivePath]))
          /\ cpc' = "closeChmod"
          /\ UNCHANGED capturePending
     ELSE /\ capturePending' =
               Rejected(<<"Failed to finalize archive for ">> \o directoryConfig.name
                          \o <<": ", "copyFileSync">>)
          /\ cpc' = "closeFinally"
          /\ UNCHANGED << disk, modes >>
  /\ UNCHANGED << orchVars, auditVars, cliVars, concVars, umask, toolStdout, toolStderr, stdout, delivered,
                  caught, dumpContent, archiveEntries, dbConfig, directoryConfig,
                  outputPath, dumpFile, tempArchivePath, tempConfigFile, configPath,
                  cnf, spawned, captureOutcome >>

\* output.on('close'), lines 66-77: chmodSync(finalArchivePath, 0o600),
\* statSync and resolve, or the catch block's reject.
output_close_chmod(failing) ==
  /\ cpc = "closeChmod"
  /\ Inject(failing = "none")
  /\ modes' = IF failing = "chmodSync" THEN modes
              ELSE SetMode(modes, finalArchivePath(directoryConfig.name), Mode600)
  /\ capturePending' =
       IF failing = "none"
       THEN Resolved([name |-> directoryConfig.name,
                      path |-> finalArchivePath(directoryConfig.name)])
       ELSE Rejected(<<"Failed to finalize archive for ">> \o directoryConfig.name
                       \o <<": ", failing>>)
  /\ cpc' = "closeFinally"
  /\ UNCHANGED << orchVars, auditVars, cliVars, concVars, umask, toolStdout, toolStderr, stdout, delivered,
                  caught, dumpContent, archiveEntries, disk, dbConfig, directoryConfig,
                  outputPath, dumpFile, tempArchivePath, tempConfigFile, configPath,
                  cnf, spawned, captureOutcome >>

\* output.on('close'), lines 78-83: the finally block removes the temporary
\* file; the promise is settled as the try or the catch block decided.
output_close_finally ==
  /\ cpc = "closeFinally"
  /\ disk' = disk \ {tempArchivePath}
  /\ modes' = RemoveMode(modes, tempArchivePath)
  /\ captureOutcome' = capturePending
  /\ cpc' = "settled"
  /\ UNCHANGED << orchVars, auditVars, cliVars, concVars, umask, toolStdout, toolStderr, stdout, delivered,
                  caught, dumpContent, archiveEntries, faults, dbConfig,
                  directoryConfig, outputPath, dumpFile, tempArchivePath,
                  tempConfigFile, configPath, cnf, spawned, capturePending >>

\* output.on('error'), lines 86-92: the temporary file is removed and the
\* stream's error rejects the promise as it is.
output_error ==
  /\ cpc = "archiving"
  /\ Inject(FALSE)
  /\ disk' = disk \ {tempArchivePath}
  /\ modes' = RemoveMode(modes, tempArchivePath)
  /\ captureOutcome' = Rejected(<<"write EIO">>)
  /\ cpc' = "settled"
  /\ UNCHANGED << orchVars, auditVars, cliVars, concVars, umask, toolStdout, toolStderr, stdout, delivered,
                  caught, dumpContent, archiveEntries, dbConfig, directoryConfig,
                  outputPath, dumpFile, tempArchivePath, tempConfigFile, configPath,
                  cnf, spawned, capturePending >>

\* archive.on('error'), lines 94-100: the temporary file is removed and the
\* promise rejected with a wrapped error.
archive_error ==
  /\ cpc = "archiving"
  /\ Inject(FALSE)
  /\ disk' = disk \ {tempArchivePath}
  /\ modes' = RemoveMode(modes, tempArchivePath)
  /\ captureOutcome' = Rejected(<<"Archive creation failed for ">> \o directoryConfig.name
                                  \o <<": ", "archiver">>)
  /\ cpc' = "settled"
  /\ UNCHANGED << orchVars, auditVars, cliVars, concVars, umask, toolStdout, toolStderr, stdout, delivered,
                  caught, dumpContent, archiveEntries, dbConfig, directoryConfig,
                  outputPath, dumpFile, tempArchivePath, tempConfigFile, configPath,
                  cnf, spawned, capturePending >>

NextArchive ==
  \/ backupDirectory_validate
  \/ \E ok \in BOOLEAN : backupDirectory_tempArchivePath(ok)
  \/ \E ok \in BOOLEAN : backupDirectory_executor(ok)
  \/ \E ok \in BOOLEAN : output_close(ok)
  \/ \E failing \in {"none", "chmodSync", "statSync"} : output_close_chmod(failing)
  \/ output_close_finally
  \/ output_error
  \/ archive_error

SpecArchive == InitArchive /\ [][NextArchive]_vars

\* ------------------------------------------- either capture called directly
InitCapture == InitDump \/ InitArchive

NextCapture == NextDump \/ NextArchive

SpecCapture == InitCapture /\ [][NextCapture]_vars

\* ------------------------------------------------------------ AuditLogger
\* The largest maxFiles option, the number of logEvent calls, and the
\* largest size of a log entry and of the maxFileSize option.
MaxAuditFiles == 3
MaxAuditEvents == 6
MaxEntrySize == 2

\* this.maxFiles = options.maxFiles || 5
DefaultMaxFiles == 5

\* The options a caller passes; maxFiles 0 stands for an option left out.
AuditOptions == [maxFiles : 0..MaxAuditFiles, maxFileSize : 1..MaxEntrySize]

\* The log files are told apart by their rotation index: 0 is the current
\* file, i the file `${basename}.${i}${ext}`.  gen numbers the files in the
\* order they were created as the current file.
newLogFile(gen) == [gen |-> gen, size |-> 0]

unlinkSync(files, i) == [j \in (DOMAIN files) \ {i} |-> files[j]]

\* fs.renameSync(a, b): b is replaced when it exists.
renameSync(files, a, b) ==
  [j \in ((DOMAIN files) \ {a}) \cup {b} |-> IF j = b THEN files[a] ELSE files[j]]

RECURSIVE shiftLogFiles(_, _, _)
\* rotateLogFiles, the loop `for (i = maxFiles - 1; i >= 1; i--)`.
shiftLogFiles(files, limit, i) ==
  IF i < 1 THEN files
  ELSE shiftLogFiles(IF i \in DOMAIN files
                     THEN IF i = limit - 1
                          THEN unlinkSync(files, i)
                          ELSE renameSync(files, i, i + 1)
                     ELSE files,
                     limit, i - 1)

\* rotateLogFiles: the rotated files are shifted, the current file becomes
\* .1 and a new current file is created.
rotateLogFiles(files, limit) ==
  LET moved == renameSync(shiftLogFiles(files, limit, limit - 1), 0, 1)
  IN  [j \in (DOMAIN moved) \cup {0} |->
         IF j = 0 THEN newLogFile(moved[1].gen + 1) ELSE moved[j]]

\* rotateLogIfNeeded: the current file is rotated once it is larger than
\* maxFileSize.
rotateLogIfNeeded(files, limit, sizeLimit) ==
  IF 0 \in DOMAIN files /\ files[0].size > sizeLimit
  THEN rotateLogFiles(files, limit)
  ELSE files

\* fs.appendFileSync(logFile, logEntry)
appendFileSync(files, size) == [files EXCEPT ![0].size = @ + size]

InitAudit ==
  /\ config = [directories |-> <<>>, databases |-> <<>>, retention |-> ExamplePolicy]
  /\ invocations = 0
  /\ remote = <<>>
  /\ umask = DefaultUmask
  /\ InitIdle
  /\ CaptureIdle

\* new AuditLogger(options): the log file is created when it does not exist.
AuditLogger_constructor(options) ==
  /\ maxFiles = 0
  /\ maxFiles' = IF options.maxFiles = 0 THEN DefaultMaxFiles ELSE options.maxFiles
  /\ maxFileSize' = options.maxFileSize
  /\ auditFiles' = [j \in {0} |-> newLogFile(1)]
  /\ UNCHANGED << orchVars, captureVars, cliVars, concVars, auditEvents >>

\* logEvent: rotateLogIfNeeded(), then the entry is appended to the
\* current file.
logEvent(size) ==
  /\ maxFiles # 0
  /\ auditEvents < MaxAuditEvents
  /\ auditEvents' = auditEvents + 1
  /\ auditFiles' = appendFileSync(rotateLogIfNeeded(auditFiles, maxFiles, maxFileSize), size)
  /\ UNCHANGED << orchVars, captureVars, cliVars, concVars, maxFiles, maxFileSize >>

NextAudit ==
  \/ \E options \in AuditOptions : AuditLogger_constructor(options)
  \/ \E size \in 1..MaxEntrySize : logEvent(size)

SpecAudit == InitAudit /\ [][NextAudit]_vars

\* ------------------------------------------------------- cli.js, `list`
\* Values of the program: undefined, the class S3Uploader, and the logger
\* createLogger() returns; a string is [type |-> "string", chars |-> ...].
Undefined == [type |-> "undefined"]
S3UploaderClass == [type |-> "function", name |-> "S3Uploader"]
LoggerObject == [type |-> "object", name |-> "logger"]

\* s3-uploader.js: module.exports = S3Uploader, the class itself.
s3uploader_exports == S3UploaderClass

\* const { prop } = obj: the property when obj has it, else undefined.
destructure(obj, prop) == IF prop \in DOMAIN obj THEN obj[prop] ELSE Undefined

\* `${value}` for a value used in a template string.
templateString(value) ==
  IF value.type = "string" THEN value.chars
  ELSE IF value.type = "undefined" THEN <<"undefined">>
  ELSE <<"[object Object]">>

\* new S3Uploader(s3Config, projectName, logger)
S3Uploader_constructor(s3Config, projectName, logger) ==
  [bucket |-> s3Config, projectName |-> projectName, logger |-> logger]

\* uploader.listBackups(): the prefix defaults to `${this.projectName}/`.
listBackups(uploader, store) ==
  ListObjectsV2(store, templateString(uploader.projectName) \o <<"/">>)

Keys(objects) == [i \in 1..Len(objects) |-> objects[i].Key]

InitList ==
  /\ config = [directories |-> <<>>, databases |-> <<>>, retention |-> ExamplePolicy]
  /\ invocations = 0
  /\ remote \in InitialStores \cup PruneStores
  /\ umask = DefaultUmask
  /\ InitIdle
  /\ CaptureIdle

\* The action of `list` up to createLogger(): the configuration is loaded
\* and S3Uploader is bound by destructuring what the module exports.
cli_list_require ==
  /\ cliPc = "none"
  /\ imported' = destructure(s3uploader_exports, "S3Uploader")
  /\ cliPc' = "required"
  /\ UNCHANGED << orchVars, captureVars, auditVars, concVars, printed, exitCode >>

\* The action of `list` from `new S3Uploader(config.s3, logger)`: the
\* backups are listed and printed and the process exits with 0; an
\* exception is caught, reported on stderr, and the process exits with 1.
cli_list_run ==
  /\ cliPc = "required"
  /\ IF imported.type # "function"
     THEN /\ exitCode' = 1
          /\ UNCHANGED printed
     ELSE LET uploader == S3Uploader_constructor("s3", LoggerObject, Undefined)
          IN  /\ printed' = Keys(listBackups(uploader, remote))
              /\ exitCode' = 0
  /\ cliPc' = "exited"
  /\ UNCHANGED << orchVars, captureVars, auditVars, concVars, imported >>

NextList ==
  \/ cli_list_require
  \/ cli_list_run

SpecList == InitList /\ [][NextList]_vars

\* ------------------------------------------- two runs on the same host
\* The number of backup processes running at the same time.
MaxManagers == 2

ManagerIds == 1..MaxManagers

\* The targets of every process, directories first.
managerTargets == config.directories \o config.databases

\* The file a process stages for its i-th target.
stagedFile(manager, i) ==
  basename(Artifact(managerTargets[i], generateTimestamp(manager.startTime)).path)

SetManager(p, manager) ==
  [q \in (DOMAIN managers) \cup {p} |-> IF q = p THEN manager ELSE managers[q]]

InitConcurrent ==
  /\ config = [directories |-> << <<"w">> >>, databases |-> << <<"d", "-", "2">> >>,
               retention |-> ExamplePolicy]
  /\ invocations = 0
  /\ remote = <<>>
  /\ umask = DefaultUmask
  /\ InitIdle
  /\ CaptureIdle

\* new BackupManager(configPath) in a process of its own: startTime = new
\* Date(), tempDir = path.join(os.tmpdir(), 'backup-to-s3').
manager_constructor(p, elapsed) ==
  /\ p \notin DOMAIN managers
  /\ p = Cardinality(DOMAIN managers) + 1
  /\ clock' = clock + elapsed
  /\ managers' = SetManager(p, [pc |-> "Constructed", startTime |-> clock',
                                tempDir |-> TempDirPath, idx |-> 0,
                                produced |-> <<>>, uploaded |-> {},
                                outcome |-> NoOutcome])
  /\ UNCHANGED << captureVars, auditVars, cliVars, config, invocations, remote, run, pc,
                  startTime, backupTimestamp, tempDir, idx, results, allBackups,
                  uploads, listing, now, deletedCount, pending, outcome, log,
                  captureLog, putLog, deleteLog, calls, pruneOutcome >>

\* What a step of a process leaves alone.
manager_frame ==
  UNCHANGED << captureVars, auditVars, cliVars, config, invocations, clock, remote, run,
               pc, startTime, backupTimestamp, idx, results, allBackups, uploads,
               listing, now, deletedCount, pending, outcome, log, captureLog,
               putLog, deleteLog, calls, pruneOutcome >>

\* runBackup up to and including ensureTempDir.
manager_ensureTempDir(p) ==
  /\ p \in DOMAIN managers
  /\ managers[p].pc = "Constructed"
  /\ tempDir' = IF tempDir.exists THEN tempDir
                ELSE [exists |-> TRUE, files |-> {}, mode |-> mkdirSync_mode]
  /\ managers' = SetManager(p, [managers[p] EXCEPT !.pc = "capture", !.idx = 1])
  /\ manager_frame

\* One capture of backupDirectories / backupDatabases: the archive is
\* copied to path.join(tempDir, filename), which fails when the directory
\* is not there; a failure is rethrown up to runBackup's finally.
manager_capture(p, ok) ==
  /\ p \in DOMAIN managers
  /\ managers[p].pc = "capture"
  /\ LET m == managers[p]
         file == stagedFile(m, m.idx)
     IN  IF ok /\ tempDir.exists
         THEN /\ tempDir' = [tempDir EXCEPT !.files = @ \cup {file}]
              /\ managers' = SetManager(p,
                   [m EXCEPT !.produced = Append(@, file),
                             !.idx = IF m.idx = Len(managerTargets) THEN 1 ELSE @ + 1,
                             !.pc = IF m.idx = Len(managerTargets) THEN "upload" ELSE @])
         ELSE /\ managers' = SetManager(p,
                   [m EXCEPT !.pc = "finally", !.outcome = Thrown("capture", <<>>)])
              /\ UNCHANGED tempDir
  /\ manager_frame

\* One iteration of uploadBackups: uploadFile reads the staged file with
\* createReadStream, which fails when the file is not there.
manager_upload(p, ok) ==
  /\ p \in DOMAIN managers
  /\ managers[p].pc = "upload"
  /\ LET m == managers[p]
         file == m.produced[m.idx]
     IN  IF ok /\ file \in tempDir.files
         THEN managers' = SetManager(p,
                [m EXCEPT !.uploaded = @ \cup {file},
                          !.idx = @ + 1,
                          !.pc = IF m.idx = Len(m.produced) THEN "prune" ELSE @])
         ELSE managers' = SetManager(p,
                [m EXCEPT !.pc = "finally", !.outcome = Thrown("upload", <<>>)])
  /\ UNCHANGED tempDir
  /\ manager_frame

\* cleanupOldBackups, which works on the store only, and the return of
\* runBackup's try block.
manager_prune(p) ==
  /\ p \in DOMAIN managers
  /\ managers[p].pc = "prune"
  /\ managers' = SetManager(p,
       [managers[p] EXCEPT !.pc = "finally",
                           !.outcome = Returned([success |-> TRUE])])
  /\ UNCHANGED tempDir
  /\ manager_frame

\* finally { await this.cleanup(); }: rmSync(tempDir, { recursive, force }).
manager_cleanup(p) ==
  /\ p \in DOMAIN managers
  /\ managers[p].pc = "finally"
  /\ tempDir' = IF tempDir.exists
                THEN [exists |-> FALSE, files |-> {}, mode |-> {}]
                ELSE tempDir
  /\ managers' = SetManager(p, [managers[p] EXCEPT !.pc = "Done"])
  /\ manager_frame

NextConcurrent ==
  \/ \E p \in ManagerIds, elapsed \in {TicksPerSec} : manager_constructor(p, elapsed)
  \/ \E p \in ManagerIds : manager_ensureTempDir(p)
  \/ \E p \in ManagerIds, ok \in BOOLEAN : manager_capture(p, ok)
  \/ \E p \in ManagerIds, ok \in BOOLEAN : manager_upload(p, ok)
  \/ \E p \in ManagerIds : manager_prune(p)
  \/ \E p \in ManagerIds : manager_cleanup(p)

SpecConcurrent == InitConcurrent /\ [][NextConcurrent]_vars

\* ------------------------------------------------------------ properties
\* The captures, puts and deletes of the run in progress.
RunCaptures == SelectSeq(captureLog, LAMBDA e : e.run = run)
RunPuts == SelectSeq(putLog, LAMBDA e : e.run = run)
RunDeletes == SelectSeq(deleteLog, LAMBDA e : e.run = run)

\* The configured targets in the order runBackup captures them.
Targets == config.directories \o config.databases

CleanupWarning == "Failed to cleanup temp directory"
PruneError == "Failed to cleanup old backups"

\* C1: every completed runBackup, returning or throwing, has removed the
\* staging root unless the removal itself failed, in which case the failure
\* was logged as a warning; the run completes as its try/catch decided.
C1_StagingRootRemoved ==
  pc = "Done" =>
    /\ (tempDir.exists => CleanupWarning \in log)
    /\ outcome.kind \in {"returned", "thrown"}
    /\ outcome = pending
    /\ (outcome.kind = "thrown" =>
          outcome.stage \in {"staging", "capture", "upload", "prune"})

\* A run that threw on an upload failure after producing artifacts, and whose
\* staging root is gone.
C1_Witness ==
  /\ pc = "Done"
  /\ outcome.kind = "thrown"
  /\ outcome.stage = "upload"
  /\ Len(RunCaptures) >= 1
  /\ ~tempDir.exists

\* C2: when every capture and upload succeeded and the retention cleanup
\* then fails, the run still completes with a success result.
C2_PruneFailureNotFatal ==
  (pc = "Done" /\ PruneError \in log) =>
    (outcome.kind = "returned" /\ outcome.result.success)

\* C3: after a failed capture the run captures no later target and issues
\* no put.
C3_CaptureFailureStopsRun ==
  \A i \in 1..Len(RunCaptures) :
    ~RunCaptures[i].ok => (i = Len(RunCaptures) /\ RunPuts = <<>>)

\* The second directory failed after the first had produced an artifact, with
\* a database still to capture; the run is over.
C3_Witness ==
  /\ pc = "Done"
  /\ Len(config.directories) = 2
  /\ Len(config.databases) = 1
  /\ Len(RunCaptures) = 2
  /\ RunCaptures[1].ok
  /\ ~RunCaptures[2].ok
  /\ RunPuts = <<>>

\* C4: the puts of a run are issued for the artifacts in input order, one
\* per artifact, the results are in that order, and a failed put is the
\* last put of the run.
C4_UploadInOrderStopAtFailure ==
  /\ Len(RunPuts) <= Len(allBackups)
  /\ \A t \in 1..Len(RunPuts) :
       /\ RunPuts[t].index = t
       /\ RunPuts[t].file = basename(allBackups[t].path)
       /\ (~RunPuts[t].ok => t = Len(RunPuts))
  /\ \A t \in 1..Len(results) :
       pc = "upload" => results[t].fileName = basename(allBackups[t].path)
  /\ \A t \in 1..Len(uploads) :
       uploads[t].fileName = basename(allBackups[t].path)
  /\ (pc \in {"prune", "pruneLoop"} => Len(uploads) = Len(allBackups))

\* Three artifacts, the second put failed, the third was never put.
C4_Witness ==
  /\ pc = "Done"
  /\ Len(allBackups) = 3
  /\ Len(RunPuts) = 2
  /\ RunPuts[1].ok
  /\ ~RunPuts[2].ok

\* The keys of the objects the run in progress wrote and that the store holds.
PublishedKeys == { remote[i].Key : i \in {j \in 1..Len(remote) : remote[j].run = run} }

ArtifactKeys(n) == { s3Key(allBackups[i]) : i \in 1..n }

UploadReturned == pc = "prune"
UploadThrew == pc = "catch" /\ pending.kind = "thrown" /\ pending.stage = "upload"

C6_NoTargetsNoUpload ==
  Targets = <<>> =>
    /\ RunPuts = <<>>
    /\ (pc = "Done" => outcome = Returned(NothingToBackUp))

\* C6 as amended: a run without targets issues no put, list or delete, and
\* returns the nothing-to-back-up result unless creating the staging root
\* failed, in which case it throws that error.
C6_NoTargetsShortCircuit ==
  Targets = <<>> =>
    /\ RunPuts = <<>>
    /\ RunDeletes = <<>>
    /\ pc \notin {"upload", "prune", "pruneLoop"}
    /\ (pc = "Done" =>
          \/ outcome = Returned(NothingToBackUp)
          \/ (outcome = Thrown("staging", <<>>) /\ "No backups to process" \notin log))
    /\ (pc = "Done" /\ "No backups to process" \in log =>
          outcome = Returned(NothingToBackUp))

\* A completed run of a configuration without targets that returned.
C6_Witness ==
  /\ pc = "Done"
  /\ Targets = <<>>
  /\ outcome.kind = "returned"
  /\ ~tempDir.exists

\* The key the key layout prescribes for a target name and a run timestamp.
LayoutKey(name, timestamp) ==
  ProjectName \o <<"/">> \o name \o <<"/">> \o name \o <<"_">> \o timestamp \o <<".tar.gz">>

\* C7: every put of a run uses the key
\* {projectName}/{target.name}/{target.name}_{RunTimestamp}.tar.gz of the
\* target that produced the artifact.
C7_KeyLayout ==
  \A t \in 1..Len(RunPuts) :
    /\ RunPuts[t].index <= Len(Targets)
    /\ RunPuts[t].name = Targets[RunPuts[t].index]
    /\ RunPuts[t].key = LayoutKey(Targets[RunPuts[t].index], generateTimestamp(startTime))

\* A put for a database artifact that follows a directory artifact.
C7_Witness ==
  /\ Len(config.directories) >= 1
  /\ Len(config.databases) >= 1
  /\ Len(RunPuts) = Len(Targets)
  /\ RunPuts[Len(RunPuts)].ok

\* C8: every artifact file of a run, and the .sql entry of every database
\* archive, carries the timestamp of the run's start, whatever time the
\* captures take.
C8_OneTimestampPerRun ==
  \A i \in 1..Len(RunCaptures) :
    LET e == RunCaptures[i]
        ts == generateTimestamp(startTime)
    IN  /\ e.file = e.name \o <<"_">> \o ts \o <<".tar.gz">>
        /\ (e.type = "database" => e.entry = e.name \o <<"_">> \o ts \o <<".sql">>)

\* A directory and a database were captured and each capture took a second,
\* so the second artifact was produced in a later second than the run's start.
C8_Witness ==
  /\ Len(RunCaptures) = 2
  /\ RunCaptures[1].type = "directory" /\ RunCaptures[1].ok
  /\ RunCaptures[2].type = "database" /\ RunCaptures[2].ok
  /\ clock - startTime = 2 * TicksPerSec
  /\ generateTimestamp(clock) # generateTimestamp(startTime)

\* C9: two distinct runs never produce the same staging filename nor put to
\* the same remote key.
C9_RunsNeverCollide ==
  /\ \A i, j \in 1..Len(putLog) :
       putLog[i].run # putLog[j].run => putLog[i].key # putLog[j].key
  /\ \A i, j \in 1..Len(captureLog) :
       captureLog[i].run # captureLog[j].run => captureLog[i].file # captureLog[j].file

\* C10: the retention cleanup never deletes an object whose age in days is
\* at most the policy's daily count.
C10_DailyWindowRetained ==
  \A i \in 1..Len(deleteLog) : deleteLog[i].daysDiff > config.retention.daily

\* --------------------------------------------- retention pass, properties
\* The deletes issued by the pass in progress (or just ended).
PassDeletes == SelectSeq(deleteLog, LAMBDA e : e.run = run /\ e.call = calls)

PassFailed == \E j \in 1..Len(PassDeletes) : ~PassDeletes[j].ok

\* The pass has its listing: it is in its loop, has returned, or was
\* aborted by a delete.
PassListed ==
  pc = "pruneLoop" \/ pc = "pruneReturned" \/ (pc = "pruneThrew" /\ PassFailed)

\* Positions of the listing the pass has decided on.
Evaluated ==
  IF PassListed
  THEN {i \in 1..Len(listing) : i < idx \/ (i = idx /\ pc = "pruneThrew")}
  ELSE {}

DeleteIssued(i) ==
  \E j \in 1..Len(PassDeletes) :
    PassDeletes[j].index = i /\ PassDeletes[j].key = listing[i].Key

AgeDays(i) == (now - listing[i].LastModified) \div TicksPerDay

PassDeletedKeys ==
  {PassDeletes[j].key : j \in {k \in 1..Len(PassDeletes) : PassDeletes[k].ok}}

\* C11: an object with daily < ageDays <= 28 is deleted exactly when
\* floor(ageDays/7) > weekly, an object with ageDays > 28 exactly when
\* floor(ageDays/30) > monthly; for ages [3,10,20,35,95] under
\* {daily 7, weekly 2, monthly 1} exactly the 95-day object is deleted.
C11_TierFormulas ==
  /\ \A i \in Evaluated :
       LET a == AgeDays(i)
           p == config.retention
       IN  /\ (p.daily < a /\ a <= 28) => (DeleteIssued(i) <=> (a \div 7) > p.weekly)
           /\ (a > 28) => (DeleteIssued(i) <=> (a \div 30) > p.monthly)
  /\ ( /\ pc = "pruneReturned"
       /\ calls = 1
       /\ config.retention = ExamplePolicy
       /\ listing = SubSeq(ExampleStore, 1, Len(ExampleAges)) )
     => /\ PassDeletedKeys = {ExampleStore[5].Key}
        /\ pruneOutcome = Returned([deletedCount |-> 1])

\* The pass over the example ages under the example policy has returned,
\* having decided on all five objects.
C11_Witness ==
  /\ pc = "pruneReturned"
  /\ calls = 1
  /\ config.retention = ExamplePolicy
  /\ listing = SubSeq(ExampleStore, 1, Len(ExampleAges))
  /\ Evaluated = 1..Len(ExampleAges)
  /\ [i \in 1..Len(listing) |-> AgeDays(i)] = ExampleAges
  /\ deletedCount = 1

\* C12: a second pass right after a first one, same policy, no object
\* added, issues no delete and returns deletedCount 0.
C12_SecondPassDeletesNothing ==
  /\ \A j \in 1..Len(deleteLog) : deleteLog[j].call < 2
  /\ (pc = "pruneReturned" /\ calls = 2)
       => pruneOutcome = Returned([deletedCount |-> 0])

\* C13: deletes are issued one at a time in listing order, and a failed
\* delete is the last one issued: the pass throws and no later object of
\* the listing is deleted.
C13_DeleteFailureAborts ==
  /\ \A i, j \in 1..Len(PassDeletes) : i < j => PassDeletes[i].index < PassDeletes[j].index
  /\ \A j \in 1..Len(deleteLog) :
       ~deleteLog[j].ok =>
         /\ j = Len(deleteLog)
         /\ pc = "pruneThrew"
         /\ pruneOutcome.kind = "thrown"
         /\ idx = deleteLog[j].index

\* A delete failed while an expired object was still ahead in the listing.
C13_Witness ==
  /\ pc = "pruneThrew"
  /\ PassFailed
  /\ \E k \in (idx + 1)..Len(listing) :
       shouldDelete(AgeDays(k), config.retention.daily, config.retention.weekly,
                    config.retention.monthly)
  /\ \A k \in (idx + 1)..Len(listing) : HasKey(remote, listing[k].Key)

\* C14: a pass that has ended, a pass aborted by a failed delete included,
\* hands its caller { deletedCount } with the number of objects deleted.
C14_CountReturnedAfterFailure ==
  (pc = "pruneReturned" \/ (pc = "pruneThrew" /\ PassFailed))
    => pruneOutcome = Returned([deletedCount |-> Cardinality(PassDeletedKeys)])

\* C15: no delete is issued for a key that does not start with
\* `${projectName}/`.
C15_OnlyProjectKeysDeleted ==
  \A j \in 1..Len(deleteLog) : StartsWith(deleteLog[j].key, ProjectName \o <<"/">>)

\* A pass has deleted an object and returned while the store holds an
\* expired object of a project whose name begins with this project's name.
C15_Witness ==
  /\ pc = "pruneReturned"
  /\ deletedCount >= 1
  /\ \E i \in 1..Len(remote) :
       /\ StartsWith(remote[i].Key, ProjectName)
       /\ ~StartsWith(remote[i].Key, ProjectName \o <<"/">>)
       /\ shouldDelete((now - remote[i].LastModified) \div TicksPerDay,
                       config.retention.daily, config.retention.weekly,
                       config.retention.monthly)

\* ------------------------------------------- database capture, properties
\* The temporary files a call of backupMySQL creates.
DumpTempFiles ==
  {DumpFilePath(dbConfig), DumpArchivePath(dbConfig), ConfigFilePath(dbConfig)}

\* C16: once backupDatabase has returned or thrown, with at most one step
\* failing, neither the credential file nor the dump file nor the
\* intermediate archive is left on disk.
C16_NoTempFileLeft ==
  (dbConfig # Null /\ cpc = "settled") => disk \cap DumpTempFiles = {}

SkipPassword(args) == \E i \in 1..Len(args) : args[i] = <<"--skip-password">>

\* C19: without an external config file, an empty password gives a
\* credential file with no line beginning `password=` and an argument
\* vector holding --skip-password; a non-empty password gives the line
\* `password=<password>` and no --skip-password.
C19_PasswordLineAndFlag ==
  (dbConfig # Null /\ dbConfig.configFile = Null /\ spawned # <<>>) =>
    LET args == spawned[Len(spawned)]
    IN  IF dbConfig.password = <<>>
        THEN /\ \A i \in 1..Len(cnf) : cnf[i][1] # "password="
             /\ SkipPassword(args)
        ELSE /\ \E i \in 1..Len(cnf) : cnf[i] = <<"password=">> \o dbConfig.password
             /\ ~SkipPassword(args)

\* mysqldump was spawned for a target with an empty password and a
\* credential file written by createMySQLConfigFile.
C19_Witness ==
  /\ dbConfig # Null
  /\ dbConfig.configFile = Null
  /\ dbConfig.password = <<>>
  /\ cnf # Null
  /\ tempConfigFile \in disk
  /\ Len(spawned) = 1

\* C20: the argument vector handed to mysqldump starts with
\* --defaults-file=<config path> and ends with the database name.
C20_DatabaseNameLast ==
  \A i \in 1..Len(spawned) :
    LET args == spawned[i]
    IN  /\ args[1] = <<"--defaults-file=">> \o configPath
        /\ args[Len(args)] = sanitizeString(dbConfig.database)
        /\ \A k \in 2..(Len(args) - 1) : args[k] # sanitizeString(dbConfig.database)

\* ------------------------------------------ directory capture, properties
\* C17: however backupDirectory settles, the temporary archive it wrote
\* to first no longer exists.
C17_TempArchiveRemoved ==
  (directoryConfig # Null /\ cpc = "settled")
    => DirArchivePath(directoryConfig) \notin disk

\* ------------------------------------------------ dump errors, properties
Tokens(seq) == {seq[i] : i \in 1..Len(seq)}

\* What must stay out of an error handed to the caller: the bytes and the
\* decoded text of the tool's stdout, its stderr, and the password.
SecretTokens ==
  Tokens(toolStdout) \cup Tokens(stdout) \cup Tokens(toolStderr)
    \cup Tokens(dbConfig.password)

\* C21: the error backupDatabase throws holds neither stdout nor stderr of
\* mysqldump nor the password; a failure inside the try block surfaces one
\* message that depends on the target's type and name only.
C21_ErrorHidesToolOutput ==
  dbConfig # Null =>
    /\ captureOutcome.kind = "rejected"
         => Tokens(captureOutcome.message) \cap SecretTokens = {}
    /\ capturePending.kind = "rejected"
         => capturePending.message =
              <<toUpperCase(dbConfig.type), " backup failed for ">> \o dbConfig.name
                \o <<": Command execution failed">>

\* mysqldump wrote to stdout and stderr and exited with a non-zero code for
\* a target with a password, and backupDatabase has thrown.
C21_Witness ==
  /\ dbConfig # Null
  /\ dbConfig.password # <<>>
  /\ cpc = "settled"
  /\ captureOutcome.kind = "rejected"
  /\ caught # Null
  /\ Tokens(toolStderr) \subseteq Tokens(caught)
  /\ stdout # <<>>

\* C22: every staging file and every final artifact that exists on disk has
\* permission bits no wider than owner read/write, in every state of a
\* capture, the state between the copy to the final path and the chmod
\* included.
C22_NoFileWiderThan0600 ==
  \A f \in DOMAIN modes : f \in disk => modes[f] \subseteq Mode600

\* A directory archive has been copied to its final path and the chmod has
\* not run yet.
C22_Witness ==
  /\ cpc = "closeChmod"
  /\ directoryConfig # Null
  /\ finalArchivePath(directoryConfig.name) \in disk
  /\ tempArchivePath \in disk
  /\ umask = DefaultUmask

\* C23: the staging root directory is created with owner-only permission
\* bits (0700), whatever the umask of the process.
C23_StagingRootOwnerOnly ==
  tempDir.exists => tempDir.mode = OwnerBits

\* C24: for every database target the final archive holds exactly one
\* entry, named {name}_{runTimestamp}.sql, whose bytes are the bytes the
\* dump tool wrote to stdout, however that output was split into chunks.
C24_ArchiveHoldsStdoutBytes ==
  (dbConfig # Null /\ archiveEntries # {}) =>
    archiveEntries = { [name |-> sqlFilename(dbConfig.name, CaptureTimestamp),
                        bytes |-> toolStdout] }

\* What a step of a run may do, given what the run has done so far.
C25_Step ==
  /\ (~tempDir.exists /\ tempDir'.exists) =>
       (RunCaptures = <<>> /\ RunPuts = <<>> /\ RunDeletes = <<>>)
  /\ captureLog' # captureLog =>
       LET k == Len(RunCaptures) + 1
           e == captureLog'[Len(captureLog')]
       IN  /\ tempDir.exists
           /\ RunPuts = <<>>
           /\ RunDeletes = <<>>
           /\ k <= Len(Targets)
           /\ e.name = Targets[k]
           /\ e.type = IF k <= Len(config.directories) THEN "directory" ELSE "database"
           /\ \A i \in 1..Len(RunCaptures) : RunCaptures[i].ok
  /\ putLog' # putLog =>
       /\ tempDir.exists
       /\ Len(RunCaptures) = Len(Targets)
       /\ \A i \in 1..Len(RunCaptures) : RunCaptures[i].ok
       /\ \A i \in 1..Len(RunPuts) : RunPuts[i].ok
       /\ listing = <<>>
       /\ RunDeletes = <<>>
  /\ (listing' # listing \/ deleteLog' # deleteLog) =>
       /\ tempDir.exists
       /\ Len(RunPuts) = Len(Targets)
       /\ \A i \in 1..Len(RunPuts) : RunPuts[i].ok
  /\ (tempDir.exists /\ ~tempDir'.exists) => pc' = "Done"

\* C25: in every run the staging root is created first, then every
\* directory is captured in declaration order, then every database in
\* declaration order, then every artifact is uploaded, then the store is
\* pruned, and the staging root is removed last; no capture starts after
\* the first put and no delete is issued before the last put has succeeded.
C25_OperationOrder == [][C25_Step]_vars

\* A run that did all of it: two captures, two puts, a delete, and the
\* staging root removed.
C25_Witness ==
  /\ pc = "Done"
  /\ outcome.kind = "returned"
  /\ Len(config.directories) > 0
  /\ Len(config.databases) > 0
  /\ Len(RunCaptures) = Len(Targets)
  /\ Len(RunPuts) = Len(Targets)
  /\ RunDeletes # <<>>
  /\ ~tempDir.exists

\* The entries of the source directory itself, and what lies outside it.
FilesUnderSource == { e \in SourceTree : ~e.throughLink }
OutsideContent == { "OUT1", "OUT2", "DIR" }

Excluded(e) ==
  \E i \in 1..Len(directoryConfig.exclude.patterns) :
    minimatch(directoryConfig.exclude.patterns[i], e.path)

\* C26: the file set of a directory's archive is the files under the
\* source path, dotfiles included, less the files matching an exclude
\* pattern; a symbolic link is stored as a link and never followed, so
\* nothing from outside the source path is archived.
C26_ArchiveFileSet ==
  (directoryConfig # Null /\ archiveEntries # {}) =>
    /\ { x.name : x \in archiveEntries } =
         { e.path : e \in { f \in FilesUnderSource : ~Excluded(f) } }
    /\ \A x \in archiveEntries : x.bytes \notin OutsideContent
    /\ \A x \in archiveEntries, e \in FilesUnderSource :
         (x.name = e.path /\ e.kind = "file") => x.bytes = e.content

\* An archive was produced with an exclude pattern in force: the dotfile and
\* a link are in it, the excluded file is not.
C26_Witness ==
  /\ directoryConfig # Null
  /\ cpc = "settled"
  /\ captureOutcome.kind = "resolved"
  /\ directoryConfig.exclude.patterns = << <<"*", ".", "l">> >>
  /\ \E x \in archiveEntries : x.name = <<".", "e">>
  /\ \E x \in archiveEntries : x.bytes = "link"
  /\ ~\E x \in archiveEntries : x.name = <<"x", ".", "l">>
  /\ \E x \in archiveEntries : x.name = <<"s", "/", "y", ".", "l">>

\* A string occurs in another.
Contains(str, part) ==
  \E i \in 0..(Len(str) - Len(part)) : SubSeq(str, i + 1, i + Len(part)) = part

\* The name of the target the capture was called for.
TargetName == IF dbConfig # Null THEN dbConfig.name ELSE directoryConfig.name

\* C27: every error a capture propagates to the orchestrator is wrapped so
\* that its message names the failing target.
C27_ErrorNamesTarget ==
  captureOutcome.kind = "rejected" => Contains(captureOutcome.message, TargetName)

\* C28: the listing cleanupOldBackups works on holds every object stored
\* under the project prefix, however many objects the store holds, so the
\* pass evaluates every one of them.
C28_ListingIsComplete ==
  (pc = "pruneLoop" /\ idx = 1) => listing = ListObjects(remote, cleanupPrefix)

\* C29: after any sequence of logEvent calls the audit log files on disk,
\* the current file and the rotated ones, are at most maxFiles, for every
\* maxFiles >= 1, and the file rotated most recently is still on disk.
C29_AuditFilesBounded ==
  maxFiles # 0 =>
    /\ Cardinality(DOMAIN auditFiles) <= maxFiles
    /\ auditFiles[0].gen > 1 =>
         \E i \in DOMAIN auditFiles : auditFiles[i].gen = auditFiles[0].gen - 1

\* C30: the list command constructs the uploader for the configured
\* project, lists that project's backups and exits with status 0.
C30_ListExitsZero ==
  cliPc = "exited" =>
    /\ exitCode = 0
    /\ printed = Keys(ListObjectsV2(remote, ProjectName \o <<"/">>))

\* C31: nothing is retried: within one run each target is captured at
\* most once, each artifact is put at most once and each remote key is
\* deleted at most once, whatever fails.
C31_NothingRetried ==
  /\ Len(RunCaptures) <= Len(Targets)
  /\ \A i \in 1..Len(RunCaptures) : RunCaptures[i].name = Targets[i]
  /\ Len(RunPuts) <= Len(allBackups)
  /\ \A i, j \in 1..Len(RunPuts) : RunPuts[i].index = RunPuts[j].index => i = j
  /\ \A i, j \in 1..Len(RunDeletes) : RunDeletes[i].key = RunDeletes[j].key => i = j

\* A run has ended with a failed delete, after two puts and an earlier
\* delete.
C31_Witness ==
  /\ pc = "Done"
  /\ outcome.kind = "thrown"
  /\ Len(RunPuts) >= 2
  /\ Len(RunDeletes) >= 2
  /\ ~RunDeletes[Len(RunDeletes)].ok

\* C32: the staging root is exclusive to one run: with two runs at the same
\* time, no run uses the staging root of another, and an artifact a run has
\* produced and not yet uploaded is still in the staging root while that
\* run goes on.
C32_StagingRootExclusive ==
  /\ \A p, q \in DOMAIN managers : p # q => managers[p].tempDir # managers[q].tempDir
  /\ \A p \in DOMAIN managers :
       managers[p].pc \in {"capture", "upload"} =>
         \A i \in 1..Len(managers[p].produced) :
           managers[p].produced[i] \notin managers[p].uploaded =>
             managers[p].produced[i] \in tempDir.files

\* C33: target names are unique within a run, so no two artifacts of a run
\* share a staging path or a remote key and no capture overwrites an
\* artifact produced earlier in the run, a directory and a database
\* configured together included.
C33_ArtifactsDistinct ==
  /\ \A i, j \in 1..Len(Targets) : Targets[i] = Targets[j] => i = j
  /\ \A i, j \in 1..Len(RunCaptures) :
       (RunCaptures[i].ok /\ RunCaptures[j].ok /\ RunCaptures[i].file = RunCaptures[j].file)
         => i = j
  /\ \A i, j \in 1..Len(RunPuts) : RunPuts[i].key = RunPuts[j].key => i = j

\* C34: --skip-password is in the argument vector only when no external
\* config file is supplied and the password is empty; with an external
\* config file the flag is never added.
C34_SkipPasswordOnlyWithoutConfigFile ==
  \A i \in 1..Len(spawned) :
    SkipPassword(spawned[i]) => (dbConfig.configFile = Null /\ dbConfig.password = <<>>)

\* C35: with an external config file, backupMySQL creates no credential
\* file of its own and neither removes nor writes the external file,
\* whether it succeeds or fails.
C35_ExternalConfigFileUntouched ==
  (dbConfig # Null /\ dbConfig.configFile # Null) =>
    /\ dbConfig.configFile \in disk
    /\ dbConfig.configFile \notin DOMAIN modes
    /\ ConfigFilePath(dbConfig) \notin disk
    /\ tempConfigFile = Null
    /\ cnf = Null

\* A dump with an external config file has failed after mysqldump was
\* spawned, and the finally block has run.
C35_Witness ==
  /\ dbConfig # Null
  /\ dbConfig.configFile # Null
  /\ cpc = "settled"
  /\ spawned # <<>>
  /\ configPath = dbConfig.configFile
  /\ captureOutcome.kind = "rejected"

\* The objects of the store that no run of this model has written.
StoredBefore == SelectSeq(remote, LAMBDA o : o.run = 0)

\* C36: a run that fails while staging, capturing or uploading issues no
\* list and no delete, so every object the store held before the run is
\* still there.
C36_FailedRunDeletesNothing ==
  (pending.kind = "thrown" /\ pending.stage \in {"staging", "capture", "upload"}) =>
    /\ RunDeletes = <<>>
    /\ listing = <<>>
    /\ StoredBefore \in InitialStores

\* A run has failed at its second put, over a store that held objects
\* before the run.
C36_Witness ==
  /\ pc = "Done"
  /\ outcome.kind = "thrown"
  /\ outcome.stage = "upload"
  /\ Len(RunPuts) = 2
  /\ RunPuts[1].ok
  /\ StoredBefore # <<>>
  /\ config.retention.daily = 0

\* C37: the prune of a run never deletes an object that run has uploaded,
\* for every policy the schema accepts, daily = weekly = monthly = 0
\* included.
C37_OwnUploadsSurvivePrune ==
  /\ \A i \in 1..Len(RunDeletes) : RunDeletes[i].writer # run
  /\ pc \in {"prune", "pruneLoop", "pruneReturned", "pruneThrew"} =>
       \A i \in 1..Len(RunPuts) : RunPuts[i].ok => HasKey(remote, RunPuts[i].key)

\* A run under the policy 0/0/0 has uploaded two artifacts and its prune
\* has deleted older objects.
C37_Witness ==
  /\ pc = "Done"
  /\ outcome.kind = "returned"
  /\ config.retention = [daily |-> 0, weekly |-> 0, monthly |-> 0]
  /\ Len(RunPuts) = 2
  /\ RunDeletes # <<>>
  /\ \A i \in 1..Len(RunPuts) : HasKey(remote, RunPuts[i].key)

\* C38: expiry is monotonic in age: under one policy, when a pass deletes
\* an object it also deletes every older object it looks at, so an
\* expired object never becomes retained again by getting older.
C38_ExpiryMonotonic ==
  \A i, j \in Evaluated :
    (AgeDays(i) < AgeDays(j) /\ DeleteIssued(i)) => DeleteIssued(j)

\* C39: with weekly >= 4 no object of 28 days or less is deleted, and
\* under the default policy {daily 7, weekly 4, monthly 12} an object is
\* deleted exactly when it is at least 390 days old.
C39_WeeklyTierInert ==
  /\ config.retention.weekly >= 4 =>
       \A i \in Evaluated : AgeDays(i) <= 28 => ~DeleteIssued(i)
  /\ config.retention = DefaultPolicy =>
       \A i \in Evaluated : DeleteIssued(i) <=> AgeDays(i) >= 390

\* Under the default policy a pass has deleted an object of exactly 390
\* days.
C39_Witness ==
  /\ config.retention = DefaultPolicy
  /\ pc = "pruneReturned"
  /\ calls = 1
  /\ deletedCount = 1
  /\ Len(listing) = 1
  /\ AgeDays(1) = 390
  /\ DeleteIssued(1)

====
